---- MODULE Spec2Model ----
(***************************************************************************)
(* Model of the build-preparation scripts of react-native-scripts.         *)
(*                                                                         *)
(* Part 1: prepare/keychains_android.js, the editor of the <queries>       *)
(* section of AndroidManifest.xml (specification SpecAndroid).             *)
(* Part 2: updateEntitlementsFile of the iOS keychain module, the editor   *)
(* of the keychain-access-groups array of the entitlements file            *)
(* (specification SpecIos).                                                *)
(* Part 3: release.sh, the script that parses its options, loads the       *)
(* config file, runs prepare/main.js and builds (specification             *)
(* SpecRelease); one step of the script is one action.                     *)
(* Part 4: prepare/main.js, the preparation run (specification             *)
(* SpecPrepare; its argument parser alone, over more command lines, is     *)
(* specification SpecParseArgs).                                           *)
(* Part 5: dependencies.js, the script that points the dependencies of     *)
(* package.json at local packages or at git (specification                 *)
(* SpecDependencies).                                                      *)
(*                                                                         *)
(* A text is a sequence of tokens.  Every token is the literal piece of    *)
(* text it is written as, so that two texts are equal exactly when the     *)
(* files are textually identical.  The tokens are chosen so that each of   *)
(* the substrings the code searches for ("<queries", "</queries>",         *)
(* "<application", "<package", "android:name") and each regular            *)
(* expression it applies lies inside one token or on token boundaries.     *)
(***************************************************************************)
EXTENDS Integers, Sequences, FiniteSets, TLC

VARIABLES
    manifest,        \* content of the file at config.manifestPath
    manifestExists,  \* fs.existsSync(config.manifestPath)
    optPackages,     \* options.packages of the caller
    cfgKeychains,    \* the "keychains" array of the config file
    result,          \* return value of the last call: "none", "true", "false"
    writes,          \* fs.writeFileSync calls made by the last call
    before,          \* content of the manifest when the last call started
    prevResult,      \* return value of the call before the last one
    entitlements,        \* content of the entitlements file at filePath
    entitlementsExists,  \* the file can be read
    bundleId,            \* argument bundleId of updateEntitlementsFile
    keychains,           \* argument keychains of updateEntitlementsFile
    iosResult,           \* return value of the last call: "none", "true", "false"
    iosWrites,           \* fs.writeFileSync calls made by the last call
    iosBefore,           \* content of the file when the last call started
    iosPrevResult,       \* return value of the call before the last one
    args,                \* "$@" of release.sh, what the loop has not shifted yet
    CONFIG_FILE,         \* shell variable, "" while unset
    PLATFORM,            \* shell variable, "" while unset
    IOS_PROJECT_NAME,    \* shell variable, "" while unset
    configFiles,         \* the config files on disk, by path
    prepareExists,       \* [ -f "$PREPARE_SCRIPT" ]
    pc,                  \* the part of release.sh that runs next
    steps,               \* the commands run so far: prepare, build_ios, build_android
    prepareOutcome,      \* "none", "missing" or "ran"
    prepareStatus,       \* exit status of node prepare/main.js once it ran
    exited,              \* release.sh has ended
    exitStatus,          \* the status it ended with
    cliPlatform,         \* value of the last --platform option, "" without one
    cliIosProject,       \* value of the last --ios-project option, "" without one
    argv,                \* process.argv of main.js from index 2 on
    mainArgs,            \* the object parseArgs returns
    configJson,          \* the parsed content of the config file
    config,              \* the config object of main
    gradle,              \* content of android/app/build.gradle
    gradleBefore,        \* its content when main started
    pbxproj,             \* content of project.pbxproj
    pbxprojBefore,       \* its content when main started
    mainPc,              \* the part of main that runs next
    calls,               \* the functions main has called so far, in order
    logs,                \* the closing messages logged so far
    written,             \* the files written so far, in order
    mainExitStatus,      \* process exit status once mainPc is "exited" or "done"
    keychainsIosReturned, \* return value of setupKeychainsIos: "none", "true", "false"
    gitPackagesFile,     \* ./git_packages.json
    packageJsonDisk,     \* ./package.json on disk
    packageJsonBefore,   \* its content when dependencies.js started
    packageDirs,         \* the directories of ../../packages with a named package.json
    packageJson,         \* the packageJson object of dependencies.js
    localPackages,       \* the localPackages object: package name -> directory
    hasChanges,          \* the hasChanges flag
    depPc,               \* the part of dependencies.js that runs next
    depExitStatus        \* process exit status once depPc is "exited", "threw" or "done"

varsAndroid == <<manifest, manifestExists, optPackages, cfgKeychains,
                 result, writes, before, prevResult>>

varsIos == <<entitlements, entitlementsExists, bundleId, keychains,
             iosResult, iosWrites, iosBefore, iosPrevResult>>

varsRelease == <<args, CONFIG_FILE, PLATFORM, IOS_PROJECT_NAME, configFiles,
                 prepareExists, pc, steps, prepareOutcome, prepareStatus,
                 exited, exitStatus, cliPlatform, cliIosProject>>

varsMain == <<argv, mainArgs, configJson, config, gradle, gradleBefore,
              pbxproj, pbxprojBefore, mainPc, calls, logs, written,
              mainExitStatus, keychainsIosReturned>>

varsDependencies == <<gitPackagesFile, packageJsonDisk, packageJsonBefore,
                      packageDirs, packageJson, localPackages, hasChanges,
                      depPc, depExitStatus>>

vars == <<varsAndroid, varsIos, varsRelease, varsMain, varsDependencies>>

\* The manifest editor is not part of the run
AndroidNotCalled ==
    /\ manifest = <<>> /\ manifestExists = FALSE
    /\ optPackages = <<>> /\ cfgKeychains = <<>>
    /\ result = "none" /\ writes = 0 /\ before = <<>> /\ prevResult = "none"

\* The entitlements editor is not part of the run
IosNotCalled ==
    /\ entitlements = <<>> /\ entitlementsExists = FALSE
    /\ bundleId = "" /\ keychains = <<>>
    /\ iosResult = "none" /\ iosWrites = 0 /\ iosBefore = <<>>
    /\ iosPrevResult = "none"

\* release.sh is not part of the run
ReleaseNotRun ==
    /\ args = <<>> /\ CONFIG_FILE = "" /\ PLATFORM = ""
    /\ IOS_PROJECT_NAME = "" /\ configFiles = <<>>
    /\ prepareExists = FALSE /\ pc = "idle" /\ steps = <<>>
    /\ prepareOutcome = "none" /\ prepareStatus = 0
    /\ exited = FALSE /\ exitStatus = 0
    /\ cliPlatform = "" /\ cliIosProject = ""

\* main.js is not part of the run
MainNotRun ==
    /\ argv = <<>> /\ mainArgs = <<>> /\ configJson = <<>> /\ config = <<>>
    /\ gradle = <<>> /\ gradleBefore = <<>>
    /\ pbxproj = <<>> /\ pbxprojBefore = <<>>
    /\ mainPc = "idle" /\ calls = <<>> /\ logs = <<>> /\ written = <<>>
    /\ mainExitStatus = 0 /\ keychainsIosReturned = "none"

\* dependencies.js is not part of the run
DependenciesNotRun ==
    /\ gitPackagesFile = <<>> /\ packageJsonDisk = <<>>
    /\ packageJsonBefore = <<>> /\ packageDirs = {}
    /\ packageJson = <<>> /\ localPackages = <<>>
    /\ hasChanges = FALSE /\ depPc = "idle" /\ depExitStatus = 0

(***************************************************************************)
(* Bounds and input sets                                                   *)
(***************************************************************************)
MaxParts == 3

MaxEntitlementsParts == 3

NL == "\n"

TAB == "\t"

KeychainKey == "<key>keychain-access-groups</key>"

\* `<string>$(AppIdentifierPrefix)${value}</string>`
StringTag(value) == "<string>$(AppIdentifierPrefix)" \o value \o "</string>"

\* One unit of leading whitespace; the code's package indentation adds
\* exactly this string ("  ") to the indentation of the open marker.
TwoSpaces == "  "

Whitespace == {TwoSpaces, NL}

PackageNames == {"a", "b"}

\* `<package android:name="${pkg}" />`
PackageTag(pkg) == "<package android:name=\"" \o pkg \o "\" />"

\* The tokens that contain the substring sub (String.prototype.includes
\* looks for sub anywhere in the text).
TokensWith(sub) ==
    CASE sub = "<queries"     -> {"<queries"}
      [] sub = "</queries>"   -> {"</queries>"}
      [] sub = "<application" -> {"<application>"}
      [] sub = "<package"     -> {"<package-info>"} \cup {PackageTag(p) : p \in PackageNames}
      [] sub = "android:name" -> {"<meta android:name>"} \cup {PackageTag(p) : p \in PackageNames}
      [] sub = KeychainKey    -> {KeychainKey}
      [] sub = "</array>"     -> {"</array>"}
      [] sub = "</dict>"      -> {"</dict>"}

\* The pieces a manifest is composed of in the initial states: single
\* lines, and two pieces of two lines (two different lines that are no
\* package entries; a self-closing tag written over two lines).
ManifestParts ==
    { <<"<package-info>">>,
      <<"<meta android:name>", NL, "<package-info>">>,
      <<TwoSpaces, "<application>">>,
      <<TwoSpaces, "<queries", "/>">>,
      <<"<queries", ">", "</queries>">>,
      <<TwoSpaces, "<queries", ">">>,
      <<TwoSpaces, "</queries>">>,
      <<TwoSpaces, TwoSpaces, PackageTag("a")>>,
      <<"<queries", ">", "<package-info>", "</queries>">>,
      <<"<queries", NL, "/>">> }

OptionPackageLists == { <<>>, <<"b", "a">>, <<"a", "a">> }

ConfigKeychainLists == { <<>>, <<"b">> }

\* The pieces an entitlements file is composed of in the initial states:
\* single lines, the key followed by its array in the forms populated,
\* populated with a comment, self-closing, empty pair and array on one
\* line, and another key with an array of its own.
EntitlementsParts ==
    { <<"<dict>">>,
      <<"</dict>">>,
      <<TAB, "</array>">>,
      <<TAB, KeychainKey, NL, TAB, "<array>", NL,
        TAB, TAB, StringTag("old"), NL, TAB, "</array>">>,
      <<TAB, KeychainKey, NL, TAB, "<array>", NL,
        TAB, TAB, "<!-- shared -->", NL, TAB, TAB, StringTag("old"), NL,
        TAB, TAB, "<!-- legacy -->", NL, TAB, "</array>">>,
      <<TAB, KeychainKey, NL, TAB, "<array/>">>,
      <<TAB, KeychainKey, NL, TAB, "<array>", NL, TAB, "</array>">>,
      <<TAB, KeychainKey, NL, TAB, "<array>", StringTag("old"), "</array>">>,
      <<TAB, "<key>aps-environment</key>", NL, TAB, "<array>", NL,
        TAB, TAB, "<string>production</string>", NL, TAB, "</array>">> }

BundleIds == { "com.app" }

KeychainLists == { <<>>, <<"k1">>, <<"k2", "k1">> }

(***************************************************************************)
(* Text primitives                                                         *)
(***************************************************************************)
\* String.prototype.includes on a text or on a line
Includes(s, sub) == \E i \in 1..Len(s) : s[i] \in TokensWith(sub)

RECURSIVE Join(_)
\* Array.prototype.join("\n")
Join(lines) ==
    IF Len(lines) = 0 THEN <<>>
    ELSE IF Len(lines) = 1 THEN lines[1]
    ELSE lines[1] \o <<NL>> \o Join(Tail(lines))

RECURSIVE Split(_)
\* String.prototype.split("\n"): the empty text is one empty line
Split(s) ==
    IF \A i \in 1..Len(s) : s[i] # NL THEN <<s>>
    ELSE LET k == CHOOSE i \in 1..Len(s) :
                     s[i] = NL /\ \A j \in 1..(i - 1) : s[j] # NL
         IN  <<SubSeq(s, 1, k - 1)>> \o Split(SubSeq(s, k + 1, Len(s)))

\* line.match(/^\s*/)[0]: the leading whitespace of a line
LeadingWhitespace(line) ==
    LET n == IF \A i \in 1..Len(line) : line[i] \in Whitespace THEN Len(line)
             ELSE (CHOOSE i \in 1..Len(line) :
                      line[i] \notin Whitespace
                      /\ \A j \in 1..(i - 1) : line[j] \in Whitespace) - 1
    IN  SubSeq(line, 1, n)

(***************************************************************************)
(* The regular expression /<queries\s*\/>|<queries\s*><\/queries>/         *)
(***************************************************************************)
RECURSIVE SkipWhitespace(_, _)
\* \s*: the first position from j on that holds no whitespace
SkipWhitespace(s, j) ==
    IF j <= Len(s) /\ s[j] \in Whitespace THEN SkipWhitespace(s, j + 1) ELSE j

\* The last position of a match of the expression that starts at i; 0 when
\* no match starts at i.
EmptyQueriesMatchEnd(s, i) ==
    IF s[i] # "<queries" THEN 0
    ELSE LET j == SkipWhitespace(s, i + 1)
         IN  IF j <= Len(s) /\ s[j] = "/>" THEN j
             ELSE IF j + 1 <= Len(s) /\ s[j] = ">" /\ s[j + 1] = "</queries>"
                  THEN j + 1
                  ELSE 0

\* The start of the first (leftmost) match; 0 when the text has none.
EmptyQueriesMatchStart(s) ==
    IF \A i \in 1..Len(s) : EmptyQueriesMatchEnd(s, i) = 0 THEN 0
    ELSE CHOOSE i \in 1..Len(s) :
            EmptyQueriesMatchEnd(s, i) # 0
            /\ \A j \in 1..(i - 1) : EmptyQueriesMatchEnd(s, j) = 0

\* /<queries\s*\/>|<queries\s*><\/queries>/.test(manifestContent)
HasEmptyQueriesTag(s) == EmptyQueriesMatchStart(s) # 0

\* manifestContent.replace(/.../, "<queries>\n</queries>"): the first match only
ReplaceEmptyQueriesTag(s) ==
    LET i == EmptyQueriesMatchStart(s)
    IN  IF i = 0 THEN s
        ELSE SubSeq(s, 1, i - 1)
             \o <<"<queries", ">", NL, "</queries>">>
             \o SubSeq(s, EmptyQueriesMatchEnd(s, i) + 1, Len(s))

(***************************************************************************)
(* setupKeychainsAndroid                                                   *)
(***************************************************************************)
\* The packages the call works with: options.packages, or the config file's
\* "keychains" when the options give none.  cfgKeychains = <<>> stands for a
\* missing or unparsable config file and for an absent key alike
\* (extractJsonArray yields [] for each of them).
LoadPackages(opt, cfg) ==
    IF Len(opt) = 0 /\ Len(cfg) > 0 THEN cfg ELSE opt

\* The index of the first line that includes sub; 0 when there is none
\* (lines are counted from 1 here, the code counts from 0 and uses -1).
FirstLineWith(lines, sub) ==
    IF \A i \in 1..Len(lines) : ~Includes(lines[i], sub) THEN 0
    ELSE CHOOSE i \in 1..Len(lines) :
            Includes(lines[i], sub)
            /\ \A j \in 1..(i - 1) : ~Includes(lines[j], sub)

QueriesOpenLine(lines) == FirstLineWith(lines, "<queries")

QueriesCloseLine(lines) == FirstLineWith(lines, "</queries>")

\* Mutant: falls back to the last line when no line has "<application"
ApplicationLineOrLast(lines) ==
    IF FirstLineWith(lines, "<application") = 0 THEN Len(lines)
    ELSE FirstLineWith(lines, "<application")

ApplicationLine(lines) == FirstLineWith(lines, "<application")

\* Mutant: takes every line with "<package" for a package entry
IsPackageEntryByTagOnly(line) == Includes(line, "<package")

\* The test that makes a line of the section an existing package entry
IsPackageEntry(line) ==
    Includes(line, "<package") /\ Includes(line, "android:name")

\* packageIndent = queriesIndent + "  "
PackageIndent(queriesIndent) == queriesIndent \o <<TwoSpaces>>

\* One `${packageIndent}<package android:name="${pkg}" />` line per package
PackageEntries(packageIndent, packages) ==
    [k \in 1..Len(packages) |-> packageIndent \o <<PackageTag(packages[k])>>]

RECURSIVE RewriteLines(_, _, _, _, _, _)
\* The loop that builds newLines for an existing section, from line i on,
\* with the flag inQueriesSection as it stands before line i.
RewriteLines(lines, i, inQueriesSection, open, close, entries) ==
    IF i > Len(lines) THEN <<>>
    ELSE IF i = open
         THEN <<lines[i]>> \o entries
              \o RewriteLines(lines, i + 1, TRUE, open, close, entries)
    ELSE IF i = close
         THEN <<lines[i]>>
              \o RewriteLines(lines, i + 1, FALSE, open, close, entries)
    ELSE IF inQueriesSection
         THEN (IF IsPackageEntry(lines[i]) THEN <<>> ELSE <<lines[i]>>)
              \o RewriteLines(lines, i + 1, inQueriesSection, open, close, entries)
    ELSE <<lines[i]>>
         \o RewriteLines(lines, i + 1, inQueriesSection, open, close, entries)

\* The branch taken when the manifest includes "<queries"
UpdateExistingSection(content, packages) ==
    LET normalized == IF HasEmptyQueriesTag(content)
                      THEN ReplaceEmptyQueriesTag(content)
                      ELSE content
        lines == Split(normalized)
        open  == QueriesOpenLine(lines)
        close == QueriesCloseLine(lines)
    IN  IF open # 0 /\ close # 0
        THEN LET queriesIndent == LeadingWhitespace(lines[open])
                 entries == PackageEntries(PackageIndent(queriesIndent), packages)
             IN  [ok |-> TRUE,
                  content |-> Join(RewriteLines(lines, 1, FALSE, open, close, entries))]
        ELSE [ok |-> FALSE, content |-> normalized]

\* Mutant: the block without the blank line that separates it
NewSectionBlockNoBlankLine(queriesIndent, packages) ==
    <<queriesIndent \o <<"<queries", ">">>>>
    \o PackageEntries(PackageIndent(queriesIndent), packages)
    \o <<queriesIndent \o <<"</queries>">>>>

\* The block pushed right before the <application> line
NewSectionBlock(queriesIndent, packages) ==
    <<queriesIndent \o <<"<queries", ">">>>>
    \o PackageEntries(PackageIndent(queriesIndent), packages)
    \o <<queriesIndent \o <<"</queries>">>, <<>>>>

\* The branch taken when the manifest does not include "<queries"
AddNewSection(content, packages) ==
    LET lines == Split(content)
        applicationLine == ApplicationLine(lines)
    IN  IF applicationLine = 0
        THEN [ok |-> FALSE, content |-> content]
        ELSE LET queriesIndent == LeadingWhitespace(lines[applicationLine])
             IN  [ok |-> TRUE,
                  content |->
                      Join(SubSeq(lines, 1, applicationLine - 1)
                           \o NewSectionBlock(queriesIndent, packages)
                           \o SubSeq(lines, applicationLine, Len(lines)))]

\* The in-memory computation of the new manifest content
ComputeManifest(content, packages) ==
    IF Includes(content, "<queries")
    THEN UpdateExistingSection(content, packages)
    ELSE AddNewSection(content, packages)

\* Mutant: writes the content as soon as it is read and normalised, and the
\* final content after it
CallOutcomeWritesEarly(packages, exists, content) ==
    IF Len(packages) = 0 THEN [returned |-> "false", written |-> <<>>]
    ELSE IF ~exists THEN [returned |-> "false", written |-> <<>>]
    ELSE LET computed == ComputeManifest(content, packages)
         IN  IF computed.ok
             THEN [returned |-> "true",
                   written |-> <<ReplaceEmptyQueriesTag(content), computed.content>>]
             ELSE [returned |-> "false", written |-> <<content>>]

\* What one call does from the package check on: the value it returns and
\* the contents it passes to fs.writeFileSync, in order.
CallOutcome(packages, exists, content) ==
    IF Len(packages) = 0 THEN [returned |-> "false", written |-> <<>>]
    ELSE IF ~exists THEN [returned |-> "false", written |-> <<>>]
    ELSE LET computed == ComputeManifest(content, packages)
         IN  IF computed.ok
             THEN [returned |-> "true", written |-> <<computed.content>>]
             ELSE [returned |-> "false", written |-> <<>>]

\* One call of setupKeychainsAndroid(configFile, options)
SetupKeychainsAndroid ==
    LET packages == LoadPackages(optPackages, cfgKeychains)
        outcome  == CallOutcome(packages, manifestExists, manifest)
    IN  /\ before' = manifest
        /\ prevResult' = result
        /\ result' = outcome.returned
        /\ writes' = Len(outcome.written)
        /\ manifest' = IF outcome.written = <<>> THEN manifest
                       ELSE outcome.written[Len(outcome.written)]
        /\ UNCHANGED <<manifestExists, optPackages, cfgKeychains>>

InitAndroid ==
    /\ optPackages \in OptionPackageLists
    /\ cfgKeychains \in ConfigKeychainLists
    /\ \/ /\ manifestExists = TRUE
          /\ \E n \in 1..MaxParts : \E doc \in [1..n -> ManifestParts] :
                manifest = Join(doc)
       \/ /\ manifestExists = FALSE
          /\ manifest = <<>>
    /\ result = "none"
    /\ writes = 0
    /\ before = manifest
    /\ prevResult = "none"

NextAndroid == SetupKeychainsAndroid

\* The run that calls the manifest editor only
InitAndroidRun ==
    InitAndroid /\ IosNotCalled /\ ReleaseNotRun /\ MainNotRun
    /\ DependenciesNotRun

NextAndroidRun ==
    NextAndroid /\ UNCHANGED <<varsIos, varsRelease, varsMain, varsDependencies>>

SpecAndroid == InitAndroidRun /\ [][NextAndroidRun]_vars

(***************************************************************************)
(* updateEntitlementsFile                                                  *)
(***************************************************************************)
\* The <string> lines pushed for the bundle id and each keychain
KeychainEntries(bundle, chains) ==
    << <<TAB, TAB, StringTag(bundle)>> >>
    \o [k \in 1..Len(chains) |-> <<TAB, TAB, StringTag(chains[k])>>]

RECURSIVE UpdateKeychainLinesKeepingOld(_, _, _, _)
\* The loop without its skip of the lines inside the array
UpdateKeychainLinesKeepingOld(lines, i, inKeychainSection, entries) ==
    IF i > Len(lines) THEN <<>>
    ELSE IF Includes(lines[i], KeychainKey)
         THEN <<lines[i], <<TAB, "<array>">> >> \o entries
              \o UpdateKeychainLinesKeepingOld(lines, i + 1, TRUE, entries)
    ELSE IF inKeychainSection /\ Includes(lines[i], "</array>")
         THEN <<lines[i]>>
              \o UpdateKeychainLinesKeepingOld(lines, i + 1, FALSE, entries)
    ELSE <<lines[i]>>
         \o UpdateKeychainLinesKeepingOld(lines, i + 1, inKeychainSection, entries)

RECURSIVE UpdateKeychainLines(_, _, _, _)
\* The loop over the lines of a file that includes the key, from line i on,
\* with the flag inKeychainSection as it stands before line i.
UpdateKeychainLines(lines, i, inKeychainSection, entries) ==
    IF i > Len(lines) THEN <<>>
    ELSE IF Includes(lines[i], KeychainKey)
         THEN <<lines[i], <<TAB, "<array>">> >> \o entries
              \o UpdateKeychainLines(lines, i + 1, TRUE, entries)
    ELSE IF inKeychainSection /\ Includes(lines[i], "</array>")
         THEN <<lines[i]>>
              \o UpdateKeychainLines(lines, i + 1, FALSE, entries)
    ELSE IF ~inKeychainSection
         THEN <<lines[i]>>
              \o UpdateKeychainLines(lines, i + 1, inKeychainSection, entries)
    ELSE UpdateKeychainLines(lines, i + 1, inKeychainSection, entries)

RECURSIVE AddKeychainLines(_, _, _)
\* The loop over the lines of a file without the key, from line i on
AddKeychainLines(lines, i, entries) ==
    IF i > Len(lines) THEN <<>>
    ELSE (IF Includes(lines[i], "</dict>")
          THEN << <<TAB, KeychainKey>>, <<TAB, "<array>">> >> \o entries
               \o << <<TAB, "</array>">>, lines[i] >>
          ELSE <<lines[i]>>)
         \o AddKeychainLines(lines, i + 1, entries)

\* The content the call computes for a file it could read
NewEntitlements(content, bundle, chains) ==
    LET lines == Split(content)
        entries == KeychainEntries(bundle, chains)
    IN  IF Includes(content, KeychainKey)
        THEN Join(UpdateKeychainLines(lines, 1, FALSE, entries))
        ELSE Join(AddKeychainLines(lines, 1, entries))

\* What one call does: the value it returns and the contents it passes to
\* fs.writeFileSync, in order (fs.readFileSync throws for a missing file
\* and the catch block returns false).
EntitlementsOutcome(exists, content, bundle, chains) ==
    IF ~exists THEN [returned |-> "false", written |-> <<>>]
    ELSE [returned |-> "true",
          written |-> <<NewEntitlements(content, bundle, chains)>>]

\* One call of updateEntitlementsFile(filePath, bundleId, keychains)
UpdateEntitlementsFile ==
    LET outcome == EntitlementsOutcome(entitlementsExists, entitlements,
                                       bundleId, keychains)
    IN  /\ iosBefore' = entitlements
        /\ iosPrevResult' = iosResult
        /\ iosResult' = outcome.returned
        /\ iosWrites' = Len(outcome.written)
        /\ entitlements' = IF outcome.written = <<>> THEN entitlements
                           ELSE outcome.written[Len(outcome.written)]
        /\ UNCHANGED <<entitlementsExists, bundleId, keychains>>

InitIos ==
    /\ bundleId \in BundleIds
    /\ keychains \in KeychainLists
    /\ \/ /\ entitlementsExists = TRUE
          /\ \E n \in 1..MaxEntitlementsParts :
                \E doc \in [1..n -> EntitlementsParts] :
                   entitlements = Join(doc)
       \/ /\ entitlementsExists = FALSE
          /\ entitlements = <<>>
    /\ iosResult = "none"
    /\ iosWrites = 0
    /\ iosBefore = entitlements
    /\ iosPrevResult = "none"

NextIos == UpdateEntitlementsFile

\* The run that calls the entitlements editor only
InitIosRun ==
    InitIos /\ AndroidNotCalled /\ ReleaseNotRun /\ MainNotRun
    /\ DependenciesNotRun

NextIosRun ==
    NextIos /\ UNCHANGED <<varsAndroid, varsRelease, varsMain, varsDependencies>>

SpecIos == InitIosRun /\ [][NextIosRun]_vars

(***************************************************************************)
(* release.sh                                                              *)
(***************************************************************************)
MaxArgGroups == 2

DEFAULT_CONFIG_FILE == "./build.config.json"

DEFAULT_PLATFORM == "all"

DEFAULT_IOS_PROJECT_NAME == "MyApp"

\* The pieces a command line is composed of in the initial states: options
\* with their value, --platform as the last word without a value, --help
\* and an option the script does not know.
ArgGroups ==
    { <<"--file", "alt.json">>,
      <<"--platform", "ios">>,
      <<"--platform", "android">>,
      <<"--platform">>,
      <<"--ios-project", "Other">>,
      <<"--help">>,
      <<"--verbose">> }

RECURSIVE Flatten(_)
\* The words of a sequence of groups, in order
Flatten(groups) ==
    IF groups = <<>> THEN <<>>
    ELSE Head(groups) \o Flatten(Tail(groups))

\* A path without a regular file
NoFile == [exists |-> FALSE, platform |-> "", ios_project_name |-> ""]

\* What a config file holds for the keys the script reads; "" for a key
\* the grep of parse_json finds no value for
ConfigContents ==
    {[exists |-> TRUE, platform |-> p, ios_project_name |-> n] :
        p \in {"", "ios", "android"}, n \in {"", "Shop"}}

AltConfigContents ==
    {NoFile, [exists |-> TRUE, platform |-> "android", ios_project_name |-> ""]}

\* Exit statuses of node prepare/main.js
NodeStatuses == {0, 1}

\* The file at a path
FileAt(path) ==
    IF path \in DOMAIN configFiles THEN configFiles[path] ELSE NoFile

\* parse_json: the value printed for the key; "" stands for return 1
ParseJson(file, key) == IF file.exists THEN file[key] ELSE ""

\* $(parse_json "$config_file" key || echo "$default")
ConfigValue(file, key, default) ==
    IF ParseJson(file, key) # "" THEN ParseJson(file, key) ELSE default

\* exit with a status (also the end the shell makes under set -e)
Exit(status) ==
    /\ pc' = "exited"
    /\ exited' = TRUE
    /\ exitStatus' = status

\* One iteration of the while loop over the arguments
ParseArgument ==
    /\ pc = "parse" /\ args # <<>>
    /\ LET key   == args[1]
           value == IF Len(args) >= 2 THEN args[2] ELSE ""
       IN  /\ CONFIG_FILE' = IF key = "--file" THEN value ELSE CONFIG_FILE
           /\ PLATFORM' = IF key = "--platform" THEN value ELSE PLATFORM
           /\ cliPlatform' = IF key = "--platform" THEN value ELSE cliPlatform
           /\ IOS_PROJECT_NAME' =
                 IF key = "--ios-project" THEN value ELSE IOS_PROJECT_NAME
           /\ cliIosProject' =
                 IF key = "--ios-project" THEN value ELSE cliIosProject
           /\ IF key \in {"--file", "--platform", "--ios-project"}
              THEN IF Len(args) >= 2
                   THEN /\ args' = SubSeq(args, 3, Len(args))
                        /\ UNCHANGED <<pc, exited, exitStatus>>
                   ELSE \* shift 2 fails and set -e ends the script
                        /\ args' = args
                        /\ Exit(1)
              ELSE /\ args' = args
                   /\ Exit(IF key = "--help" THEN 0 ELSE 1)
    /\ UNCHANGED <<configFiles, prepareExists, steps, prepareOutcome,
                   prepareStatus>>

\* The default of CONFIG_FILE and load_config, after the loop
LoadConfig ==
    /\ pc = "parse" /\ args = <<>>
    /\ LET path == IF CONFIG_FILE = "" THEN DEFAULT_CONFIG_FILE
                   ELSE CONFIG_FILE
           file == FileAt(path)
       IN  /\ CONFIG_FILE' = path
           /\ IF ~file.exists
              THEN /\ Exit(1)
                   /\ UNCHANGED <<PLATFORM, IOS_PROJECT_NAME>>
              ELSE /\ PLATFORM' = ConfigValue(file, "platform", DEFAULT_PLATFORM)
                   /\ IOS_PROJECT_NAME' =
                         ConfigValue(file, "ios_project_name",
                                     DEFAULT_IOS_PROJECT_NAME)
                   /\ pc' = "prepare"
                   /\ UNCHANGED <<exited, exitStatus>>
    /\ UNCHANGED <<args, configFiles, prepareExists, steps, prepareOutcome,
                   prepareStatus, cliPlatform, cliIosProject>>

\* Mutant: the script goes on whatever status the prepare script ends with
PrepareAllowsBuildIfPresent(scriptExists, status) == scriptExists

\* The script goes on to the builds after the prepare step
PrepareAllowsBuild(scriptExists, status) == scriptExists /\ status = 0

\* The prepare step: node "$PREPARE_SCRIPT" when the script is a file
RunPrepare ==
    /\ pc = "prepare"
    /\ \E status \in NodeStatuses :
          /\ IF prepareExists
             THEN /\ steps' = Append(steps, "prepare")
                  /\ prepareOutcome' = "ran"
                  /\ prepareStatus' = status
             ELSE /\ prepareOutcome' = "missing"
                  /\ UNCHANGED <<steps, prepareStatus>>
          /\ IF PrepareAllowsBuild(prepareExists, status)
             THEN /\ pc' = "build_ios"
                  /\ UNCHANGED <<exited, exitStatus>>
             ELSE Exit(IF prepareExists THEN status ELSE 1)
    /\ UNCHANGED <<args, CONFIG_FILE, PLATFORM, IOS_PROJECT_NAME, configFiles,
                   prepareExists, cliPlatform, cliIosProject>>

\* The first if of "Build apps": build_ios, which set -e ends at the first
\* command that fails
BuildIos ==
    /\ pc = "build_ios"
    /\ IF PLATFORM \in {"ios", "all"}
       THEN /\ steps' = Append(steps, "build_ios")
            /\ \E ok \in BOOLEAN :
                  IF ok THEN /\ pc' = "build_android"
                             /\ UNCHANGED <<exited, exitStatus>>
                  ELSE Exit(1)
       ELSE /\ pc' = "build_android"
            /\ UNCHANGED <<steps, exited, exitStatus>>
    /\ UNCHANGED <<args, CONFIG_FILE, PLATFORM, IOS_PROJECT_NAME, configFiles,
                   prepareExists, prepareOutcome, prepareStatus, cliPlatform,
                   cliIosProject>>

\* The second if of "Build apps": build_android, then the end of the script
BuildAndroid ==
    /\ pc = "build_android"
    /\ IF PLATFORM \in {"android", "all"}
       THEN /\ steps' = Append(steps, "build_android")
            /\ \E ok \in BOOLEAN : Exit(IF ok THEN 0 ELSE 1)
       ELSE /\ Exit(0)
            /\ UNCHANGED steps
    /\ UNCHANGED <<args, CONFIG_FILE, PLATFORM, IOS_PROJECT_NAME, configFiles,
                   prepareExists, prepareOutcome, prepareStatus, cliPlatform,
                   cliIosProject>>

InitRelease ==
    /\ \E n \in 0..MaxArgGroups :
          \E groups \in [1..n -> ArgGroups] : args = Flatten(groups)
    /\ CONFIG_FILE = "" /\ PLATFORM = "" /\ IOS_PROJECT_NAME = ""
    /\ \E main \in ConfigContents \cup {NoFile}, alt \in AltConfigContents :
          configFiles = [path \in {DEFAULT_CONFIG_FILE, "alt.json"} |->
                            IF path = DEFAULT_CONFIG_FILE THEN main ELSE alt]
    /\ prepareExists \in BOOLEAN
    /\ pc = "parse"
    /\ steps = <<>>
    /\ prepareOutcome = "none" /\ prepareStatus = 0
    /\ exited = FALSE /\ exitStatus = 0
    /\ cliPlatform = "" /\ cliIosProject = ""

\* The run of release.sh alone
InitReleaseRun ==
    InitRelease /\ AndroidNotCalled /\ IosNotCalled /\ MainNotRun
    /\ DependenciesNotRun

NextReleaseRun ==
    \/ ParseArgument /\ UNCHANGED <<varsAndroid, varsIos, varsMain,
                                    varsDependencies>>
    \/ LoadConfig /\ UNCHANGED <<varsAndroid, varsIos, varsMain,
                                    varsDependencies>>
    \/ RunPrepare /\ UNCHANGED <<varsAndroid, varsIos, varsMain,
                                    varsDependencies>>
    \/ BuildIos /\ UNCHANGED <<varsAndroid, varsIos, varsMain,
                                    varsDependencies>>
    \/ BuildAndroid /\ UNCHANGED <<varsAndroid, varsIos, varsMain,
                                    varsDependencies>>

SpecRelease == InitReleaseRun /\ [][NextReleaseRun]_vars

(***************************************************************************)
(* prepare/main.js: parseArgs                                              *)
(***************************************************************************)
MaxArgvGroups == 2

\* The pieces a command line of main.js is composed of in the initial
\* states of SpecParseArgs
ArgvGroups ==
    { <<"--autoVersionCode">>,
      <<"--autoVersionCode", "1">>,
      <<"--autoVersionCode", "0">>,
      <<"--file", "alt.json">>,
      <<"--app-icon", "icon.png">>,
      <<"--help">>,
      <<"--verbose">> }

\* The object parseArgs starts from (null is written ""); exit is set when
\* parseArgs ends the process with process.exit(1)
InitialArgs ==
    [configFile |-> DEFAULT_CONFIG_FILE, appIcon |-> "", logoIcon |-> "",
     autoVersionCode |-> FALSE, help |-> FALSE, exit |-> FALSE]

RECURSIVE ParseArgsFrom(_, _, _)
\* The for loop of parseArgs from word i on (the code counts from index 2
\* of process.argv, the model from 1 of argv)
ParseArgsFrom(list, i, acc) ==
    IF i > Len(list) THEN acc
    ELSE IF list[i] = "--file" /\ i + 1 <= Len(list)
         THEN ParseArgsFrom(list, i + 2, [acc EXCEPT !.configFile = list[i + 1]])
    ELSE IF list[i] = "--app-icon" /\ i + 1 <= Len(list)
         THEN ParseArgsFrom(list, i + 2, [acc EXCEPT !.appIcon = list[i + 1]])
    ELSE IF list[i] = "--logo" /\ i + 1 <= Len(list)
         THEN ParseArgsFrom(list, i + 2, [acc EXCEPT !.logoIcon = list[i + 1]])
    ELSE IF list[i] = "--autoVersionCode" /\ i + 1 <= Len(list)
         THEN ParseArgsFrom(list, i + 2,
                            [acc EXCEPT !.autoVersionCode = (list[i + 1] = "1")])
    ELSE IF list[i] = "--autoVersionCode"
         THEN ParseArgsFrom(list, i + 1, [acc EXCEPT !.autoVersionCode = TRUE])
    ELSE IF list[i] = "--help"
         THEN ParseArgsFrom(list, i + 1, [acc EXCEPT !.help = TRUE])
    ELSE [acc EXCEPT !.exit = TRUE]

ParseArgs(list) == ParseArgsFrom(list, 1, InitialArgs)

\* The start of main: parseArgs, then showHelp when help was asked for
ParseArgsStep ==
    /\ mainPc = "parseArgs"
    /\ mainArgs' = ParseArgs(argv)
    /\ IF mainArgs'.exit
       THEN mainPc' = "exited" /\ mainExitStatus' = 1
       ELSE IF mainArgs'.help
            THEN mainPc' = "exited" /\ mainExitStatus' = 0
            ELSE mainPc' = "loadConfig" /\ mainExitStatus' = mainExitStatus
    /\ UNCHANGED <<argv, configJson, config, gradle, gradleBefore, pbxproj,
                   pbxprojBefore, calls, logs, written, keychainsIosReturned>>

\* The argument parser alone
InitParseArgs ==
    /\ \E n \in 0..MaxArgvGroups :
          \E groups \in [1..n -> ArgvGroups] : argv = Flatten(groups)
    /\ mainArgs = InitialArgs
    /\ mainPc = "parseArgs"
    /\ configJson = <<>> /\ config = <<>>
    /\ gradle = <<>> /\ gradleBefore = <<>>
    /\ pbxproj = <<>> /\ pbxprojBefore = <<>>
    /\ calls = <<>> /\ logs = <<>> /\ written = <<>>
    /\ mainExitStatus = 0 /\ keychainsIosReturned = "none"
    /\ AndroidNotCalled /\ IosNotCalled /\ ReleaseNotRun
    /\ DependenciesNotRun

NextParseArgs ==
    ParseArgsStep /\ UNCHANGED <<varsAndroid, varsIos, varsRelease,
                                       varsDependencies>>

SpecParseArgs == InitParseArgs /\ [][NextParseArgs]_vars

(***************************************************************************)
(* prepare/main.js: the preparation run                                    *)
(***************************************************************************)
\* A key the config file does not hold
Undefined == "undefined"

DEFAULT_BUNDLE_ID == "com.myapp.default"

DEFAULT_TEAM_ID == "ABCDEF1234"

DEFAULT_VERSION == "1.0.0"

\* The command lines of the initial states of SpecPrepare
MainCommandLines ==
    { <<>>, <<"--autoVersionCode", "1">>, <<"--help">>, <<"--verbose">> }

\* A config file that does not exist
NoConfig ==
    [exists |-> FALSE, bundle_id |-> Undefined, team_id |-> Undefined,
     platform |-> Undefined, version |-> Undefined, keychains |-> <<>>]

\* The parsed config files of the initial states
ConfigJsons ==
    {[exists |-> TRUE, bundle_id |-> b, team_id |-> t, platform |-> p,
      version |-> "2.0.0", keychains |-> k] :
        b \in {Undefined, "", "com.app"}, t \in {Undefined, "TEAM9"},
        p \in {Undefined, "ios", "android"}, k \in ConfigKeychainLists}

\* value || default
OrDefault(value, default) ==
    IF value \in {Undefined, ""} THEN default ELSE value

\* The object loadConfig returns, with the fields main adds to it
LoadedConfig(json, parsed) ==
    [BUNDLE_ID |-> OrDefault(json.bundle_id, DEFAULT_BUNDLE_ID),
     TEAM_ID |-> OrDefault(json.team_id, DEFAULT_TEAM_ID),
     PLATFORM |-> OrDefault(json.platform, DEFAULT_PLATFORM),
     VERSION |-> OrDefault(json.version, DEFAULT_VERSION),
     KEYCHAINS |-> json.keychains,
     ANDROID_APP_ID |-> OrDefault(json.bundle_id, DEFAULT_BUNDLE_ID),
     CONFIG_FILE |-> parsed.configFile,
     autoVersionCode |-> parsed.autoVersionCode]

\* loadConfig and the lines of main that complete the config object
LoadConfigStep ==
    /\ mainPc = "loadConfig"
    /\ IF ~configJson.exists
       THEN /\ mainPc' = "exited" /\ mainExitStatus' = 1
            /\ UNCHANGED config
       ELSE /\ config' = LoadedConfig(configJson, mainArgs)
            /\ mainPc' = "assets"
            /\ UNCHANGED mainExitStatus
    /\ UNCHANGED <<argv, mainArgs, configJson, gradle, gradleBefore, pbxproj,
                   pbxprojBefore, calls, logs, written, keychainsIosReturned>>

\* generateAppAssets: when an app icon is configured, is a PNG file and
\* ImageMagick is installed, it writes the icon set of the iOS project
GenerateAppAssets ==
    /\ mainPc = "assets"
    /\ calls' = Append(calls, "generateAppAssets")
    /\ \E generated \in BOOLEAN :
          written' = IF generated
                     THEN Append(written, "ios/Images.xcassets/AppIcon.appiconset/Contents.json")
                     ELSE written
    /\ mainPc' = "ios"
    /\ UNCHANGED <<argv, mainArgs, configJson, config, gradle, gradleBefore,
                   pbxproj, pbxprojBefore, logs, mainExitStatus,
                   keychainsIosReturned>>

\* The pieces of project.pbxproj the run reads: a setting
\* `DEVELOPMENT_TEAM = value;`, the line `buildSettings = {`, the comments
\* around the PBXFileReference section and an entry of that section
TeamSetting(value) == [kind |-> "DEVELOPMENT_TEAM", value |-> value]

BuildSettingsOpen == [kind |-> "buildSettings = {", value |-> ""]

FileRefBegin == [kind |-> "/* Begin PBXFileReference section */", value |-> ""]

FileRefEnd == [kind |-> "/* End PBXFileReference section */", value |-> ""]

FileRef(name) == [kind |-> "PBXFileReference", value |-> name]

\* The project files of the initial states: two settings (one quoted),
\* no setting and no file section, and a file that is up to date
PbxprojFiles ==
    { <<FileRefBegin, FileRef("Info.plist"), FileRefEnd,
        BuildSettingsOpen, TeamSetting("OLDTEAM"),
        BuildSettingsOpen, TeamSetting("\"OLDTEAM\"")>>,
      <<BuildSettingsOpen, BuildSettingsOpen>>,
      <<FileRefBegin, FileRef("GoogleService-Info.plist"), FileRefEnd,
        BuildSettingsOpen, TeamSetting("TEAM9")>> }

RECURSIVE WithTeamInEveryBlock(_, _)
\* replace(/buildSettings = {/g, `buildSettings = {\n\t\t\t\tDEVELOPMENT_TEAM = ${teamId};`)
WithTeamInEveryBlock(content, teamId) ==
    IF content = <<>> THEN <<>>
    ELSE (IF Head(content) = BuildSettingsOpen
          THEN <<BuildSettingsOpen, TeamSetting(teamId)>>
          ELSE <<Head(content)>>)
         \o WithTeamInEveryBlock(Tail(content), teamId)

\* The value of pbxprojContent after the two replacements of updateIosConfig
UpdatedPbxproj(content, teamId) ==
    LET replaced == [i \in 1..Len(content) |->
                        IF content[i].kind = "DEVELOPMENT_TEAM"
                        THEN TeamSetting(teamId) ELSE content[i]]
    IN  IF \E i \in 1..Len(replaced) : replaced[i].kind = "DEVELOPMENT_TEAM"
        THEN replaced
        ELSE WithTeamInEveryBlock(replaced, teamId)

\* addFileToXcodeProject: the content it writes; the content unchanged
\* when it writes nothing (the file is named already, or there is no
\* PBXFileReference section with an entry)
WithGoogleFileRef(content) ==
    LET named  == \E i \in 1..Len(content) :
                     content[i] = FileRef("GoogleService-Info.plist")
        begins == {i \in 1..Len(content) : content[i] = FileRefBegin}
        first  == CHOOSE i \in begins : \A j \in begins : i <= j
        ends   == {i \in 1..Len(content) : content[i] = FileRefEnd /\ i > first}
        last   == CHOOSE i \in ends : \A j \in ends : i <= j
    IN  IF named \/ begins = {} THEN content
        ELSE IF ends = {} \/ last = first + 1 THEN content
        ELSE SubSeq(content, 1, last - 1)
             \o <<FileRef("GoogleService-Info.plist")>>
             \o SubSeq(content, last, Len(content))

ApsKey == "<key>aps-environment</key>"

\* String.prototype.replace with a string pattern: the first occurrence
ReplaceFirstToken(content, token, replacement) ==
    IF \A i \in 1..Len(content) : content[i] # token THEN content
    ELSE LET k == CHOOSE i \in 1..Len(content) :
                     content[i] = token /\ \A j \in 1..(i - 1) : content[j] # token
         IN  SubSeq(content, 1, k - 1) \o replacement
             \o SubSeq(content, k + 1, Len(content))

\* The entitlements content updateIosConfig writes before it calls
\* setupKeychainsIos
ApsUpdated(content) ==
    IF \E i \in 1..Len(content) : content[i] = ApsKey
    THEN ReplaceFirstToken(content, "<string>development</string>",
                           <<"<string>production</string>">>)
    ELSE ReplaceFirstToken(content, "</dict>",
                           <<TAB, ApsKey, NL, TAB, "<string>production</string>",
                             NL, "</dict>">>)

\* extractJsonValue(configFile, "bundle_id", DEFAULT_BUNDLE_ID)
ExtractedBundleId(json) ==
    IF json.bundle_id = Undefined THEN DEFAULT_BUNDLE_ID ELSE json.bundle_id

\* What setupKeychainsIos does in the run of main (the config file, the
\* project directory and an entitlements file exist): it returns false
\* for a falsy bundle id, and otherwise calls updateEntitlementsFile
KeychainsIosOutcome(json, content) ==
    IF ExtractedBundleId(json) = ""
    THEN [returned |-> "false", written |-> <<>>]
    ELSE EntitlementsOutcome(TRUE, content, ExtractedBundleId(json),
                             json.keychains)

\* Mutant: the iOS update runs for every platform
UpdatesIosAlways(platform) == TRUE

\* config.PLATFORM === "ios" || config.PLATFORM === "all"
UpdatesIos(platform) == platform \in {"ios", "all"}

\* config.PLATFORM === "android" || config.PLATFORM === "all"
UpdatesAndroid(platform) == platform \in {"android", "all"}

\* updateIosConfig behind its platform test in main
UpdateIosConfig ==
    /\ mainPc = "ios"
    /\ IF ~UpdatesIos(config.PLATFORM)
       THEN /\ mainPc' = "android"
            /\ UNCHANGED <<varsIos, pbxproj, calls, logs, written,
                           mainExitStatus, keychainsIosReturned>>
       ELSE \E plist \in {"missing", "toolFails", "ok"},
               urlsWritten \in BOOLEAN, googleCopied \in BOOLEAN :
          IF plist # "ok"
          THEN /\ calls' = Append(calls, "updateIosConfig")
               /\ mainPc' = "exited" /\ mainExitStatus' = 1
               /\ UNCHANGED <<varsIos, pbxproj, logs, written,
                              keychainsIosReturned>>
          ELSE LET pbxprojContent == UpdatedPbxproj(pbxproj, config.TEAM_ID)
                   apsContent == ApsUpdated(entitlements)
                   outcome == KeychainsIosOutcome(configJson, apsContent)
                   called  == ExtractedBundleId(configJson) # ""
                   project == IF googleCopied THEN WithGoogleFileRef(pbxproj)
                              ELSE pbxproj
               IN  /\ IF entitlementsExists
                      THEN /\ entitlements' =
                                 IF outcome.written = <<>> THEN apsContent
                                 ELSE outcome.written[Len(outcome.written)]
                           /\ keychainsIosReturned' = outcome.returned
                           /\ IF called
                              THEN /\ bundleId' = ExtractedBundleId(configJson)
                                   /\ keychains' = configJson.keychains
                                   /\ iosBefore' = apsContent
                                   /\ iosPrevResult' = iosResult
                                   /\ iosResult' = outcome.returned
                                   /\ iosWrites' = Len(outcome.written)
                              ELSE UNCHANGED <<bundleId, keychains, iosBefore,
                                               iosPrevResult, iosResult, iosWrites>>
                           /\ UNCHANGED entitlementsExists
                      ELSE UNCHANGED <<varsIos, keychainsIosReturned>>
                   /\ calls' = calls \o <<"updateIosConfig">>
                         \o (IF entitlementsExists THEN <<"setupKeychainsIos">>
                             ELSE <<>>)
                         \o <<"updateIosBundleUrls", "setupGoogleServiceInfo">>
                   /\ written' = written \o <<"ios/Info.plist">>
                         \o (IF entitlementsExists
                             THEN <<"ios/entitlements">>
                                  \o [k \in 1..Len(outcome.written) |-> "ios/entitlements"]
                             ELSE <<>>)
                         \o (IF urlsWritten THEN <<"ios/Info.plist">> ELSE <<>>)
                         \o (IF googleCopied THEN <<"ios/GoogleService-Info.plist">>
                             ELSE <<>>)
                         \o (IF project # pbxproj THEN <<"ios/project.pbxproj">>
                             ELSE <<>>)
                   /\ pbxproj' = project
                   /\ logs' = Append(logs, "iOS configuration updated successfully.")
                   /\ mainPc' = "android"
                   /\ UNCHANGED mainExitStatus
    /\ UNCHANGED <<argv, mainArgs, configJson, config, gradle, gradleBefore,
                   pbxprojBefore, varsAndroid>>

\* The settings of build.gradle the run reads: `applicationId "text"`,
\* `versionName "text"` and `versionCode number`
ApplicationIdLine(text) == [key |-> "applicationId", text |-> text, number |-> 0]

VersionNameLine(text) == [key |-> "versionName", text |-> text, number |-> 0]

VersionCodeLine(number) == [key |-> "versionCode", text |-> "", number |-> number]

\* The build files of the initial states: all three settings, no
\* versionCode, and a file that is up to date
GradleFiles ==
    { <<ApplicationIdLine("com.old"), VersionCodeLine(41), VersionNameLine("1.0")>>,
      <<ApplicationIdLine("com.old"), VersionNameLine("1.0")>>,
      <<VersionCodeLine(7), ApplicationIdLine("com.app"), VersionNameLine("2.0.0")>> }

\* String.prototype.replace with a regular expression without the g flag:
\* the first setting of that key is replaced
ReplaceFirstSetting(content, line) ==
    IF \A i \in 1..Len(content) : content[i].key # line.key THEN content
    ELSE LET k == CHOOSE i \in 1..Len(content) :
                     /\ content[i].key = line.key
                     /\ \A j \in 1..(i - 1) : content[j].key # line.key
         IN  [content EXCEPT ![k] = line]

\* gradleContent.match(/versionCode (\d+)/): the number, 0 without a match
CurrentVersionCode(content) ==
    IF \A i \in 1..Len(content) : content[i].key # "versionCode" THEN 0
    ELSE LET k == CHOOSE i \in 1..Len(content) :
                     /\ content[i].key = "versionCode"
                     /\ \A j \in 1..(i - 1) : content[j].key # "versionCode"
         IN  content[k].number

\* The value of gradleContent when updateAndroidConfig is done with it
UpdatedGradle(content, cfg) ==
    LET named == ReplaceFirstSetting(
                    ReplaceFirstSetting(content, ApplicationIdLine(cfg.ANDROID_APP_ID)),
                    VersionNameLine(cfg.VERSION))
    IN  IF cfg.autoVersionCode
        THEN ReplaceFirstSetting(named, VersionCodeLine(CurrentVersionCode(named) + 1))
        ELSE named

\* fs.writeFileSync(gradlePath, gradleContent) stands in the branch of
\* autoVersionCode only
GradleIsWritten(cfg) == cfg.autoVersionCode

\* Mutant: the closing message is logged only after a successful setup
AndroidClosingLogsOnSuccess(returned) ==
    IF returned = "true"
    THEN <<"Android configuration updated successfully.">>
    ELSE <<>>

\* What updateAndroidConfig logs after setupKeychainsAndroid has returned
AndroidClosingLogs(returned) ==
    <<"Android configuration updated successfully.">>

\* updateAndroidConfig behind its platform test in main, and the end of main
UpdateAndroidConfig ==
    /\ mainPc = "android"
    /\ IF ~UpdatesAndroid(config.PLATFORM)
       THEN /\ logs' = Append(logs, "Preparation process completed successfully!")
            /\ mainPc' = "done"
            /\ UNCHANGED <<varsAndroid, gradle, calls, written, mainExitStatus>>
       ELSE \E resourcesFound \in BOOLEAN, nightColors \in BOOLEAN :
          IF ~resourcesFound \/ ~manifestExists
          THEN /\ calls' = Append(calls, "updateAndroidConfig")
               /\ mainPc' = "exited" /\ mainExitStatus' = 1
               /\ UNCHANGED <<varsAndroid, gradle, logs, written>>
          ELSE /\ gradle' = IF GradleIsWritten(config)
                            THEN UpdatedGradle(gradle, config) ELSE gradle
               /\ SetupKeychainsAndroid
               /\ calls' = calls \o <<"updateAndroidConfig", "setupKeychainsAndroid">>
               /\ written' = written
                     \o <<"android/strings.xml", "android/colors.xml">>
                     \o (IF nightColors THEN <<"android/values-night/colors.xml">>
                         ELSE <<>>)
                     \o (IF GradleIsWritten(config) THEN <<"android/build.gradle">>
                         ELSE <<>>)
                     \o [k \in 1..writes' |-> "android/AndroidManifest.xml"]
               /\ logs' = logs \o AndroidClosingLogs(result')
                     \o <<"Preparation process completed successfully!">>
               /\ mainPc' = "done"
               /\ UNCHANGED mainExitStatus
    /\ UNCHANGED <<argv, mainArgs, configJson, config, gradleBefore, pbxproj,
                   pbxprojBefore, keychainsIosReturned, varsIos>>

\* The entitlements files and manifests of the initial states
MainEntitlementsFiles ==
    { <<"<dict>", NL, "</dict>">>,
      <<"<dict>", NL, TAB, ApsKey, NL, TAB, "<string>development</string>", NL,
        TAB, KeychainKey, NL, TAB, "<array>", NL,
        TAB, TAB, StringTag("old"), NL, TAB, "</array>", NL, "</dict>">> }

MainManifests ==
    { <<TwoSpaces, "<application>">>,
      <<"<package-info>">>,
      <<TwoSpaces, "<queries", ">", NL, TwoSpaces, TwoSpaces, PackageTag("a"), NL,
        TwoSpaces, "</queries>", NL, TwoSpaces, "<application>">> }

InitMain ==
    /\ argv \in MainCommandLines
    /\ mainArgs = InitialArgs
    /\ configJson \in ConfigJsons \cup {NoConfig}
    /\ config = <<>>
    /\ gradle \in GradleFiles /\ gradleBefore = gradle
    /\ pbxproj \in PbxprojFiles /\ pbxprojBefore = pbxproj
    /\ mainPc = "parseArgs"
    /\ calls = <<>> /\ logs = <<>> /\ written = <<>>
    /\ mainExitStatus = 0 /\ keychainsIosReturned = "none"
    \* the files the two section editors work on
    /\ \/ manifestExists = TRUE /\ manifest \in MainManifests
       \/ manifestExists = FALSE /\ manifest = <<>>
    /\ optPackages = <<>> /\ cfgKeychains = configJson.keychains
    /\ result = "none" /\ writes = 0 /\ before = manifest
    /\ prevResult = "none"
    /\ \/ entitlementsExists = TRUE /\ entitlements \in MainEntitlementsFiles
       \/ entitlementsExists = FALSE /\ entitlements = <<>>
    /\ bundleId = "" /\ keychains = <<>>
    /\ iosResult = "none" /\ iosWrites = 0 /\ iosBefore = entitlements
    /\ iosPrevResult = "none"

\* One run of main.js
InitMainRun == InitMain /\ ReleaseNotRun /\ DependenciesNotRun

NextMainRun ==
    \/ ParseArgsStep /\ UNCHANGED <<varsAndroid, varsIos, varsRelease,
                                       varsDependencies>>
    \/ LoadConfigStep /\ UNCHANGED <<varsAndroid, varsIos, varsRelease,
                                       varsDependencies>>
    \/ GenerateAppAssets /\ UNCHANGED <<varsAndroid, varsIos, varsRelease,
                                       varsDependencies>>
    \/ UpdateIosConfig /\ UNCHANGED <<varsRelease, varsDependencies>>
    \/ UpdateAndroidConfig /\ UNCHANGED <<varsRelease, varsDependencies>>

SpecPrepare == InitMainRun /\ [][NextMainRun]_vars

(***************************************************************************)
(* dependencies.js                                                         *)
(*                                                                         *)
(* A JavaScript object is the sequence of its <<key, value>> entries in    *)
(* insertion order, wrapped in a record that tells whether the property    *)
(* that holds it is defined.  The script runs top to bottom; each of its   *)
(* blocks is one action.                                                   *)
(***************************************************************************)
\* `${PACKAGES_DIR}/*`
WorkspaceGlob == "../../packages/*"

DependencyNames == {"a-lib", "b-lib"}

\* Position of a package name in the order of Array.prototype.sort
NameRank(name) == IF name = "a-lib" THEN 1 ELSE 2

\* The directories of ../../packages and the "name" of the package.json in each
PackageDirNames == {"a-dir", "b-dir"}

NameIn(dir) == IF dir = "a-dir" THEN "a-lib" ELSE "b-lib"

\* `link:./${PACKAGES_DIR}/${localPackages[depName].path}`
LocalPath(dir) == "link:./../../packages/" \o dir

\* The URL git_packages.json gives for a package
GitUrl(name) == "git+https://example.com/" \o name \o ".git"

\* depValue.startsWith("link:")
StartsWithLink(value) == value \in { LocalPath(d) : d \in PackageDirNames }

\* The values package.json may give a dependency
DependencyValues(name) ==
    { LocalPath(CHOOSE d \in PackageDirNames : NameIn(d) = name),
      GitUrl(name), "^1.0.0" }

NoObject == [defined |-> FALSE, entries |-> <<>>]

Object(entries) == [defined |-> TRUE, entries |-> entries]

Keys(obj) == { obj.entries[i][1] : i \in 1..Len(obj.entries) }

\* obj[key], Undefined for a key the object does not have
Get(obj, key) ==
    IF key \in Keys(obj)
    THEN (obj.entries[CHOOSE i \in 1..Len(obj.entries) :
                          obj.entries[i][1] = key])[2]
    ELSE Undefined

\* obj[key] = value: an existing key keeps its place, a new one goes last
Put(obj, key, value) ==
    IF key \in Keys(obj)
    THEN Object([i \in 1..Len(obj.entries) |->
                    IF obj.entries[i][1] = key THEN <<key, value>>
                    ELSE obj.entries[i]])
    ELSE Object(Append(obj.entries, <<key, value>>))

\* a value that an `if` takes as true
Truthy(value) == value /= Undefined /\ value /= ""

\* The dependencies objects package.json may hold over the given names
PackageJsonObjects(names) ==
    { NoObject, Object(<<>>) }
    \cup UNION { { Object(<<<<n, v>>>>) : v \in DependencyValues(n) } :
                 n \in names }
    \cup UNION { UNION { { Object(<<<<n, v>>, <<m, w>>>>) :
                              v \in DependencyValues(n),
                              w \in DependencyValues(m) } :
                         m \in names \ {n} } :
                 n \in names }

\* The sections git_packages.json may hold
GitSections ==
    { NoObject,
      Object(<<<<"a-lib", GitUrl("a-lib")>>>>),
      Object(<<<<"b-lib", GitUrl("b-lib")>>>>),
      Object(<<<<"b-lib", GitUrl("b-lib")>>, <<"a-lib", GitUrl("a-lib")>>>>) }

GitDevSections == { NoObject, Object(<<<<"b-lib", GitUrl("b-lib")>>>>) }

\* The "workspaces" property package.json may hold: none, an array, or the
\* object form { packages: [...] }
WorkspacesValues ==
    { [kind |-> "undefined", items |-> <<>>],
      [kind |-> "array", items |-> <<WorkspaceGlob>>],
      [kind |-> "array", items |-> <<"packages/*">>],
      [kind |-> "object", items |-> <<WorkspaceGlob>>] }

Contains(items, item) == \E i \in 1..Len(items) : items[i] = item

\* Array.prototype.includes is not a function of a plain object
IncludesThrows(workspaces) == workspaces.kind = "object"

\* The workspaces property after the block "Ensure workspace configuration
\* is correct"
EnsuredWorkspaces(workspaces) ==
    IF workspaces.kind = "undefined"
    THEN [kind |-> "array", items |-> <<WorkspaceGlob>>]
    ELSE IF workspaces.kind = "array"
             /\ ~Contains(workspaces.items, WorkspaceGlob)
    THEN [kind |-> "array", items |-> Append(workspaces.items, WorkspaceGlob)]
    ELSE workspaces

\* findLocalPackages(): the object from package name to directory
FindLocalPackages(dirs) ==
    [ name \in { NameIn(d) : d \in dirs } |->
        CHOOSE d \in dirs : NameIn(d) = name ]

\* Mutant: the git URL is set also for a name package.json does not have
ResolveEntryAddingAbsent(obj, depName, gitUrl, locals) ==
    IF depName \in DOMAIN locals
    THEN IF Get(obj, depName) /= LocalPath(locals[depName])
         THEN [obj |-> Put(obj, depName, LocalPath(locals[depName])),
               changed |-> TRUE]
         ELSE [obj |-> obj, changed |-> FALSE]
    ELSE IF Get(obj, depName) /= gitUrl
         THEN [obj |-> Put(obj, depName, gitUrl), changed |-> TRUE]
         ELSE [obj |-> obj, changed |-> FALSE]

\* One round of the loop over the entries of a section of git_packages.json;
\* the result is the object and whether the round set hasChanges
ResolveEntry(obj, depName, gitUrl, locals) ==
    IF depName \in DOMAIN locals
    THEN IF Get(obj, depName) /= LocalPath(locals[depName])
         THEN [obj |-> Put(obj, depName, LocalPath(locals[depName])),
               changed |-> TRUE]
         ELSE [obj |-> obj, changed |-> FALSE]
    ELSE IF Get(obj, depName) /= gitUrl /\ Truthy(Get(obj, depName))
         THEN [obj |-> Put(obj, depName, gitUrl), changed |-> TRUE]
         ELSE [obj |-> obj, changed |-> FALSE]

RECURSIVE ResolveFrom(_, _, _, _)
\* The loop from entry i of the section on
ResolveFrom(gitEntries, i, acc, locals) ==
    IF i > Len(gitEntries) THEN acc
    ELSE LET step == ResolveEntry(acc.obj, gitEntries[i][1],
                                  gitEntries[i][2], locals)
         IN  ResolveFrom(gitEntries, i + 1,
                         [obj |-> step.obj,
                          changed |-> acc.changed \/ step.changed],
                         locals)

Resolve(obj, gitSection, locals) ==
    ResolveFrom(gitSection.entries, 1, [obj |-> obj, changed |-> FALSE],
                locals)

\* packageJson.dependencies[depName] of an undefined dependencies property
\* throws in the first round of the loop
DependenciesThrow(obj, gitSection, locals) ==
    ~obj.defined /\ gitSection.entries /= <<>>

\* packageJson.devDependencies[depName] of an undefined devDependencies
\* property throws in the round of a package that exists locally; the other
\* branch tests the property first
DevDependenciesThrow(obj, gitSection, locals) ==
    ~obj.defined /\ Keys(gitSection) \cap DOMAIN locals /= {}

\* The entry is a link to a local package that does not exist any more
IsBrokenLink(entry, locals) ==
    StartsWithLink(entry[2]) /\ entry[1] \notin DOMAIN locals

HasGitFallback(name, gitSection) ==
    gitSection.defined /\ Truthy(Get(gitSection, name))

\* The loop "Check for link: dependencies that no longer exist"
ReplaceBrokenLinks(obj, gitSection, locals) ==
    IF ~obj.defined THEN obj
    ELSE Object([i \in 1..Len(obj.entries) |->
                    IF IsBrokenLink(obj.entries[i], locals)
                       /\ HasGitFallback(obj.entries[i][1], gitSection)
                    THEN <<obj.entries[i][1],
                           Get(gitSection, obj.entries[i][1])>>
                    ELSE obj.entries[i]])

RECURSIVE InsertByKey(_, _)
InsertByKey(entry, sorted) ==
    IF sorted = <<>> THEN <<entry>>
    ELSE IF NameRank(entry[1]) < NameRank(Head(sorted)[1])
    THEN <<entry>> \o sorted
    ELSE <<Head(sorted)>> \o InsertByKey(entry, Tail(sorted))

RECURSIVE SortEntries(_)
SortEntries(entries) ==
    IF entries = <<>> THEN <<>>
    ELSE InsertByKey(entries[Len(entries)],
                     SortEntries(SubSeq(entries, 1, Len(entries) - 1)))

\* sortObjectByKeys, applied only to a defined property
SortObjectByKeys(obj) ==
    IF obj.defined THEN Object(SortEntries(obj.entries)) ELSE obj

\* git_packages.json does not exist
NoGitPackages ==
    [exists |-> FALSE, dependencies |-> NoObject, devDependencies |-> NoObject]

GitPackagesFiles ==
    { [exists |-> TRUE, dependencies |-> d, devDependencies |-> v] :
        d \in GitSections, v \in GitDevSections }

PackageJsonFiles ==
    { [workspaces |-> w, dependencies |-> d, devDependencies |-> v] :
        w \in WorkspacesValues,
        d \in PackageJsonObjects(DependencyNames),
        v \in PackageJsonObjects({"b-lib"}) }

\* packageJson before require(packageJsonPath)
NotLoaded ==
    [workspaces |-> [kind |-> "undefined", items |-> <<>>],
     dependencies |-> NoObject, devDependencies |-> NoObject]

\* Lines 10-21: leave without git_packages.json, else load both files
LoadPackageFiles ==
    /\ depPc = "start"
    /\ IF ~gitPackagesFile.exists
       THEN /\ depPc' = "exited"
            /\ depExitStatus' = 1
            /\ UNCHANGED packageJson
       ELSE /\ packageJson' = packageJsonDisk
            /\ depPc' = "workspaces"
            /\ UNCHANGED depExitStatus
    /\ UNCHANGED <<gitPackagesFile, packageJsonDisk, packageJsonBefore,
                   packageDirs, localPackages, hasChanges>>

\* Lines 23-36: the workspaces property of the object in memory; hasChanges
\* is declared later and is not set here
EnsureWorkspaces ==
    /\ depPc = "workspaces"
    /\ IF IncludesThrows(packageJson.workspaces)
       THEN /\ depPc' = "threw"
            /\ depExitStatus' = 1
            /\ UNCHANGED packageJson
       ELSE /\ packageJson' =
                  [packageJson EXCEPT
                     !.workspaces = EnsuredWorkspaces(packageJson.workspaces)]
            /\ depPc' = "local"
            /\ UNCHANGED depExitStatus
    /\ UNCHANGED <<gitPackagesFile, packageJsonDisk, packageJsonBefore,
                   packageDirs, localPackages, hasChanges>>

\* Lines 38-91
FindLocalPackagesStep ==
    /\ depPc = "local"
    /\ localPackages' = FindLocalPackages(packageDirs)
    /\ hasChanges' = FALSE
    /\ depPc' = "dependencies"
    /\ UNCHANGED <<gitPackagesFile, packageJsonDisk, packageJsonBefore,
                   packageDirs, packageJson, depExitStatus>>

\* Lines 93-123
ResolveDependencies ==
    /\ depPc = "dependencies"
    /\ IF DependenciesThrow(packageJson.dependencies,
                            gitPackagesFile.dependencies, localPackages)
       THEN /\ depPc' = "threw"
            /\ depExitStatus' = 1
            /\ UNCHANGED <<packageJson, hasChanges>>
       ELSE LET r == Resolve(packageJson.dependencies,
                             gitPackagesFile.dependencies, localPackages)
            IN  /\ packageJson' = [packageJson EXCEPT !.dependencies = r.obj]
                /\ hasChanges' = (hasChanges \/ r.changed)
                /\ depPc' = "devDependencies"
                /\ UNCHANGED depExitStatus
    /\ UNCHANGED <<gitPackagesFile, packageJsonDisk, packageJsonBefore,
                   packageDirs, localPackages>>

\* Lines 125-159
ResolveDevDependencies ==
    /\ depPc = "devDependencies"
    /\ IF DevDependenciesThrow(packageJson.devDependencies,
                               gitPackagesFile.devDependencies, localPackages)
       THEN /\ depPc' = "threw"
            /\ depExitStatus' = 1
            /\ UNCHANGED <<packageJson, hasChanges>>
       ELSE LET r == Resolve(packageJson.devDependencies,
                             gitPackagesFile.devDependencies, localPackages)
            IN  /\ packageJson' = [packageJson EXCEPT !.devDependencies = r.obj]
                /\ hasChanges' = (hasChanges \/ r.changed)
                /\ depPc' = "links"
                /\ UNCHANGED depExitStatus
    /\ UNCHANGED <<gitPackagesFile, packageJsonDisk, packageJsonBefore,
                   packageDirs, localPackages>>

\* Lines 161-208: the two loops over the link: values
CheckBrokenLinks ==
    /\ depPc = "links"
    /\ LET deps == ReplaceBrokenLinks(packageJson.dependencies,
                                      gitPackagesFile.dependencies,
                                      localPackages)
           devs == ReplaceBrokenLinks(packageJson.devDependencies,
                                      gitPackagesFile.devDependencies,
                                      localPackages)
       IN  /\ packageJson' = [packageJson EXCEPT !.dependencies = deps,
                                                 !.devDependencies = devs]
           /\ hasChanges' = (hasChanges
                             \/ deps /= packageJson.dependencies
                             \/ devs /= packageJson.devDependencies)
    /\ depPc' = "sort"
    /\ UNCHANGED <<gitPackagesFile, packageJsonDisk, packageJsonBefore,
                   packageDirs, localPackages, depExitStatus>>

\* Lines 221-239
SortDependencies ==
    /\ depPc = "sort"
    /\ LET deps == SortObjectByKeys(packageJson.dependencies)
           devs == SortObjectByKeys(packageJson.devDependencies)
       IN  /\ packageJson' = [packageJson EXCEPT !.dependencies = deps,
                                                 !.devDependencies = devs]
           /\ hasChanges' = (hasChanges
                             \/ deps /= packageJson.dependencies
                             \/ devs /= packageJson.devDependencies)
    /\ depPc' = "write"
    /\ UNCHANGED <<gitPackagesFile, packageJsonDisk, packageJsonBefore,
                   packageDirs, localPackages, depExitStatus>>

\* Lines 241-253: package.json is written only when hasChanges is set
WritePackageJson ==
    /\ depPc = "write"
    /\ packageJsonDisk' = IF hasChanges THEN packageJson ELSE packageJsonDisk
    /\ depPc' = "done"
    /\ UNCHANGED <<gitPackagesFile, packageJsonBefore, packageDirs,
                   packageJson, localPackages, hasChanges, depExitStatus>>

InitDependencies ==
    /\ gitPackagesFile \in GitPackagesFiles \cup {NoGitPackages}
    /\ packageJsonDisk \in PackageJsonFiles
    /\ packageJsonBefore = packageJsonDisk
    /\ packageDirs \in SUBSET PackageDirNames
    /\ packageJson = NotLoaded
    /\ localPackages = <<>>
    /\ hasChanges = FALSE
    /\ depPc = "start"
    /\ depExitStatus = 0

\* One run of dependencies.js
InitDependenciesRun ==
    /\ InitDependencies
    /\ AndroidNotCalled /\ IosNotCalled /\ ReleaseNotRun /\ MainNotRun

NextDependenciesRun ==
    \/ LoadPackageFiles /\ UNCHANGED <<varsAndroid, varsIos, varsRelease, varsMain>>
    \/ EnsureWorkspaces /\ UNCHANGED <<varsAndroid, varsIos, varsRelease, varsMain>>
    \/ FindLocalPackagesStep
         /\ UNCHANGED <<varsAndroid, varsIos, varsRelease, varsMain>>
    \/ ResolveDependencies
         /\ UNCHANGED <<varsAndroid, varsIos, varsRelease, varsMain>>
    \/ ResolveDevDependencies
         /\ UNCHANGED <<varsAndroid, varsIos, varsRelease, varsMain>>
    \/ CheckBrokenLinks /\ UNCHANGED <<varsAndroid, varsIos, varsRelease, varsMain>>
    \/ SortDependencies /\ UNCHANGED <<varsAndroid, varsIos, varsRelease, varsMain>>
    \/ WritePackageJson /\ UNCHANGED <<varsAndroid, varsIos, varsRelease, varsMain>>

SpecDependencies == InitDependenciesRun /\ [][NextDependenciesRun]_vars

(***************************************************************************)
(* Properties of the manifest editor                                       *)
(***************************************************************************)
\* The package list the last call worked with
UsedPackages == LoadPackages(optPackages, cfgKeychains)

InputLines == Split(before)

OutputLines == Split(manifest)

\* The first line from line `from` on that includes sub; 0 when there is none
FirstLineWithFrom(lines, sub, from) ==
    IF \A i \in from..Len(lines) : ~Includes(lines[i], sub) THEN 0
    ELSE CHOOSE i \in from..Len(lines) :
            Includes(lines[i], sub)
            /\ \A j \in from..(i - 1) : ~Includes(lines[j], sub)

\* The line (counted from 1) that position pos of text s lies on
LineOfPosition(s, pos) == 1 + Cardinality({k \in 1..(pos - 1) : s[k] = NL})

RECURSIVE IsSubsequence(_, _)
\* a can be obtained from b by deleting elements
IsSubsequence(a, b) ==
    IF a = <<>> THEN TRUE
    ELSE IF b = <<>> THEN FALSE
    ELSE IF Head(a) = Head(b) THEN IsSubsequence(Tail(a), Tail(b))
    ELSE IsSubsequence(a, Tail(b))

RECURSIVE SelectLines(_, _, _)
\* The lines lines[i] with from <= i <= to and i \in keep, in order
SelectLines(lines, from, keep) ==
    IF from > Len(lines) THEN <<>>
    ELSE (IF from \in keep THEN <<lines[from]>> ELSE <<>>)
         \o SelectLines(lines, from + 1, keep)

\* A line that is a package entry in the claims' sense
HasPackageAndName(line) ==
    /\ \E i \in 1..Len(line) : line[i] \in TokensWith("<package")
    /\ \E i \in 1..Len(line) : line[i] \in TokensWith("android:name")

\* The input holds the open marker "<queries" at most once (repeated and
\* nested sections are outside the editor's contract).
InputHasAtMostOneSection ==
    Cardinality({i \in 1..Len(before) : before[i] = "<queries"}) <= 1

\* C1 (as claimed, on manifests with at most one section): when a call
\* follows a call that returned true, with the same package list, it leaves
\* the manifest textually identical to what the first call left.
C1_SecondRunChangesNothing ==
    (prevResult = "true" /\ InputHasAtMostOneSection) => manifest = before

\* The close-marker line of the target section of the input, as the claims
\* define it: the open-marker line itself when the tag is closed on it
\* (self-closing, or "</queries>" on the same line), otherwise the first
\* line after it that includes "</queries>"; 0 when there is none.
InputOpenLine == FirstLineWith(InputLines, "<queries")

InputSelfClosedOnOpenLine ==
    LET i == EmptyQueriesMatchStart(before)
    IN  /\ i # 0
        /\ LineOfPosition(before, i) = InputOpenLine
        /\ LineOfPosition(before, EmptyQueriesMatchEnd(before, i)) = InputOpenLine

InputCloseLine ==
    IF InputOpenLine = 0 THEN 0
    ELSE IF InputSelfClosedOnOpenLine
            \/ Includes(InputLines[InputOpenLine], "</queries>")
         THEN InputOpenLine
         ELSE FirstLineWithFrom(InputLines, "</queries>", InputOpenLine + 1)

\* C2 (as claimed, on manifests with at most one section): after a call
\* that returned true, the input lines before the open-marker line are the
\* first lines of the output and the input lines after the close-marker
\* line are its last lines (every input line is kept in order when there
\* was no section), unchanged.
C2_OutsideLinesKept ==
    (result = "true" /\ InputHasAtMostOneSection) =>
        IF InputOpenLine = 0
        THEN IsSubsequence(InputLines, OutputLines)
        ELSE LET head == SubSeq(InputLines, 1, InputOpenLine - 1)
                 tail == IF InputCloseLine = 0 THEN <<>>
                         ELSE SubSeq(InputLines, InputCloseLine + 1, Len(InputLines))
                 n    == Len(OutputLines)
             IN  /\ n >= Len(head) + Len(tail)
                 /\ SubSeq(OutputLines, 1, Len(head)) = head
                 /\ SubSeq(OutputLines, n - Len(tail) + 1, n) = tail

\* The lines of the input that the normalisation of the self-closing or
\* empty tag rewrites: those the first match of the expression lies on.
NormalisedInputLines ==
    LET i == EmptyQueriesMatchStart(before)
    IN  IF i = 0 THEN {}
        ELSE LineOfPosition(before, i)
             .. LineOfPosition(before, EmptyQueriesMatchEnd(before, i))

\* The lines strictly between the open-marker line of the input and the
\* first close-marker line after it that are no package entries
ForeignInteriorLines ==
    LET close == FirstLineWithFrom(InputLines, "</queries>", InputOpenLine + 1)
    IN  IF InputOpenLine = 0 \/ close = 0 THEN {}
        ELSE {k \in (InputOpenLine + 1)..(close - 1) :
                 ~HasPackageAndName(InputLines[k])}

\* C3 (as claimed): after a call that returned true on a manifest with a
\* section, every line strictly between the marker lines that is no
\* package entry is in the output, unmodified, in the original order.
C3_ForeignLinesKept ==
    result = "true" =>
        IsSubsequence(SelectLines(InputLines, 1, ForeignInteriorLines),
                      OutputLines)

\* C3 (amended): the same for the foreign lines that are not part of the
\* self-closing or empty <queries tag which the normalisation rewrites.
C3_ForeignLinesKeptAmended ==
    result = "true" =>
        IsSubsequence(SelectLines(InputLines, 1,
                                  ForeignInteriorLines \ NormalisedInputLines),
                      OutputLines)

\* C3 witness: a successful call on a section with two different foreign
\* lines and a package entry between its markers.
C3_Witness ==
    /\ result = "true"
    /\ \E j, k \in ForeignInteriorLines \ NormalisedInputLines :
          j < k /\ InputLines[j] # InputLines[k]
    /\ ~HasPackageAndName(InputLines[Len(InputLines)])
    /\ manifest # before

\* C4: on a manifest without "<queries" that has a line with
\* "<application", the output is the input with the block <queries>, one
\* package line per desired package in order, </queries>, blank line
\* inserted right before the first such line, indented like that line (the
\* package lines by two more spaces), and nothing else changed.
C4_CreationPath ==
    (/\ result # "none" /\ manifestExists /\ Len(UsedPackages) > 0
     /\ ~Includes(before, "<queries")
     /\ Includes(before, "<application")) =>
        LET anchor == FirstLineWith(InputLines, "<application")
            indent == LeadingWhitespace(InputLines[anchor])
        IN  /\ result = "true"
            /\ OutputLines =
                  SubSeq(InputLines, 1, anchor - 1)
                  \o <<indent \o <<"<queries", ">">>>>
                  \o [k \in 1..Len(UsedPackages) |->
                         indent \o <<TwoSpaces, PackageTag(UsedPackages[k])>>]
                  \o <<indent \o <<"</queries>">>>>
                  \o << <<>> >>
                  \o SubSeq(InputLines, anchor, Len(InputLines))

\* C4 witness: a section was created for two packages before an
\* <application> line that is not the first line of the manifest.
C4_Witness ==
    /\ result = "true"
    /\ ~Includes(before, "<queries")
    /\ FirstLineWith(InputLines, "<application") > 1
    /\ Len(UsedPackages) = 2
    /\ UsedPackages[1] # UsedPackages[2]

\* C5: a call on a manifest with neither "<queries" nor a line with
\* "<application" returns false and writes nothing: the file is as before.
C5_NoAnchorNoWrite ==
    (/\ result # "none" /\ manifestExists
     /\ ~Includes(before, "<queries")
     /\ ~Includes(before, "<application")) =>
        /\ result = "false"
        /\ writes = 0
        /\ manifest = before

\* C5 witness: packages were supplied, the manifest exists and has neither
\* marker, and the call has returned.
C5_Witness ==
    /\ result # "none" /\ manifestExists /\ Len(UsedPackages) > 0
    /\ Len(InputLines) > 1
    /\ ~Includes(before, "<queries")
    /\ ~Includes(before, "<application")

\* The input holds "<queries" once, as a self-closing tag <queries/> that
\* stands alone on its line after the line's indentation.
InputHasLoneSelfClosingTag ==
    LET i == EmptyQueriesMatchStart(before)
    IN  /\ i # 0
        /\ InputHasAtMostOneSection
        /\ EmptyQueriesMatchEnd(before, i) = i + 1
        /\ before[i + 1] = "/>"
        /\ (i + 1 = Len(before) \/ before[i + 2] = NL)
        /\ LeadingWhitespace(InputLines[InputOpenLine])
              \o <<"<queries", "/>">> = InputLines[InputOpenLine]

\* The input with its lone self-closing tag written in the form `section`
InputWithSectionAs(section) ==
    LET i == EmptyQueriesMatchStart(before)
    IN  SubSeq(before, 1, i - 1) \o section \o SubSeq(before, i + 2, Len(before))

\* C6 (as claimed): the output for a manifest whose section is <queries/>
\* is also the output for the same manifest with the section written
\* <queries></queries> on one line, and with the section written as the
\* pair <queries> / </queries> on two lines at the same indentation.
C6_EmptyFormsConverge ==
    (result = "true" /\ InputHasLoneSelfClosingTag) =>
        LET indent == LeadingWhitespace(InputLines[InputOpenLine])
            oneLine == InputWithSectionAs(<<"<queries", ">", "</queries>">>)
            pair == InputWithSectionAs(<<"<queries", ">", NL>> \o indent
                                       \o <<"</queries>">>)
        IN  /\ ComputeManifest(oneLine, UsedPackages).content = manifest
            /\ ComputeManifest(pair, UsedPackages).content = manifest

OutputOpenLine == FirstLineWith(OutputLines, "<queries")

\* The first line after the open-marker line of the output that includes
\* "</queries>"; 0 when there is none
OutputCloseLine ==
    IF OutputOpenLine = 0 THEN 0
    ELSE FirstLineWithFrom(OutputLines, "</queries>", OutputOpenLine + 1)

\* A line is its leading whitespace followed by the entry of package pkg
IsEntryLineOf(line, pkg) ==
    line = LeadingWhitespace(line) \o <<PackageTag(pkg)>>

\* C7 (as claimed, on manifests with one section): after a call that
\* returned true on a manifest with a section, the package entries between the marker lines of the output are
\* one entry line per desired package, in the supplied order, right after
\* the open-marker line; no other package entry is left between the markers.
C7_ExactEntriesAfterOpenMarker ==
    (/\ result = "true" /\ Includes(before, "<queries")
     /\ InputHasAtMostOneSection) =>
        LET n == Len(UsedPackages)
        IN  /\ OutputCloseLine > OutputOpenLine + n
            /\ \A k \in 1..n :
                  IsEntryLineOf(OutputLines[OutputOpenLine + k], UsedPackages[k])
            /\ \A j \in (OutputOpenLine + n + 1)..(OutputCloseLine - 1) :
                  ~HasPackageAndName(OutputLines[j])

\* C8 (as claimed, on manifests with one section): the close-marker line the call takes for the section is
\* the first line including "</queries>" from the open-marker line on,
\* never one before the open-marker line.
C8_CloseMarkerFollowsOpenMarker ==
    (/\ result = "true" /\ Includes(before, "<queries")
     /\ InputHasAtMostOneSection) =>
        LET lines == Split(ReplaceEmptyQueriesTag(before))
        IN  QueriesCloseLine(lines)
               = FirstLineWithFrom(lines, "</queries>", QueriesOpenLine(lines))

\* C9: a call writes the manifest at most once, and exactly when it returns
\* true; a call that returns false leaves the file as it was; and the call
\* returns false when no packages are given, when the manifest is missing,
\* when "<queries" is present with no "</queries>" to close it, and when
\* there is neither "<queries" nor "<application".
C9_SingleCommittedWrite ==
    result # "none" =>
        /\ writes <= 1
        /\ (writes = 1) <=> (result = "true")
        /\ (result = "false") => (manifest = before)
        /\ (manifest # before) => (writes = 1)
        /\ (\/ Len(UsedPackages) = 0
            \/ ~manifestExists
            \/ /\ Includes(before, "<queries")
               /\ ~Includes(before, "</queries>")
               /\ \A i \in 1..Len(before) : before[i] # "/>"
            \/ /\ ~Includes(before, "<queries")
               /\ ~Includes(before, "<application"))
           => (result = "false")

\* C9 witness: with packages and a manifest at hand the call has given up
\* on a "<queries" that nothing closes.
C9_Witness ==
    /\ result = "false" /\ writes = 0
    /\ manifestExists /\ Len(UsedPackages) > 0
    /\ Includes(before, "<queries")
    /\ Len(InputLines) > 1

\* C10 (as claimed, for sections whose marker lines the call writes itself:
\* a created section, an expanded <queries/>): in the output the line of
\* </queries> has the leading whitespace of the line of <queries>, and
\* each inserted package line has that whitespace plus two spaces.
C10_IndentationOfWrittenSection ==
    (/\ result = "true"
     /\ ~Includes(before, "<queries") \/ InputHasLoneSelfClosingTag) =>
        LET indent == LeadingWhitespace(OutputLines[OutputOpenLine])
        IN  /\ OutputCloseLine # 0
            /\ LeadingWhitespace(OutputLines[OutputCloseLine]) = indent
            /\ \A k \in 1..Len(UsedPackages) :
                  LeadingWhitespace(OutputLines[OutputOpenLine + k])
                     = indent \o <<TwoSpaces>>

(***************************************************************************)
(* Properties of the entitlements editor                                   *)
(***************************************************************************)
IosInputLines == Split(iosBefore)

IosOutputLines == Split(entitlements)

\* The input holds the key line at most once
InputHasAtMostOneKey ==
    Cardinality({i \in 1..Len(iosBefore) : iosBefore[i] = KeychainKey}) <= 1

IosInputKeyLine == FirstLineWith(IosInputLines, KeychainKey)

\* The <string> children an array of the model can hold
StringTokens ==
    {StringTag(v) : v \in {"old", "k1", "k2"} \cup BundleIds}
    \cup {"<string>production</string>"}

IsStringToken(token) == token \in StringTokens

\* C11: a call that follows an earlier call with the same bundle id and
\* keychains leaves the entitlements file textually identical to what the
\* earlier call left.
C11_SecondCallChangesNothing ==
    iosPrevResult # "none" => entitlements = iosBefore

\* C11 witness: a second call has run on a file that holds the key, an
\* array of three entries and a closing </dict> after it.
C11_Witness ==
    /\ iosPrevResult = "true" /\ iosResult = "true"
    /\ Len(keychains) = 2
    /\ Includes(entitlements, KeychainKey)
    /\ Includes(IosOutputLines[Len(IosOutputLines)], "</dict>")

\* The last line of the array that follows the key line of the input: the
\* line after the key line when it holds <array/>, otherwise the first
\* line after the key line that includes "</array>"; 0 when there is none.
IosInputArrayEnd ==
    IF IosInputKeyLine = 0 THEN 0
    ELSE IF /\ IosInputKeyLine < Len(IosInputLines)
            /\ \E i \in 1..Len(IosInputLines[IosInputKeyLine + 1]) :
                  IosInputLines[IosInputKeyLine + 1][i] = "<array/>"
         THEN IosInputKeyLine + 1
         ELSE FirstLineWithFrom(IosInputLines, "</array>", IosInputKeyLine + 1)

\* C12 (as claimed, on files with one key line): after a call on a file
\* with the key line, the input lines before the key line are the first
\* lines of the output and the input lines after the array that follows
\* the key are its last lines, unchanged.
C12_LinesAroundArrayKept ==
    (/\ iosResult = "true" /\ IosInputKeyLine # 0 /\ InputHasAtMostOneKey
     /\ IosInputArrayEnd # 0) =>
        LET head == SubSeq(IosInputLines, 1, IosInputKeyLine - 1)
            tail == SubSeq(IosInputLines, IosInputArrayEnd + 1,
                           Len(IosInputLines))
            n    == Len(IosOutputLines)
        IN  /\ n >= Len(head) + Len(tail)
            /\ SubSeq(IosOutputLines, 1, Len(head)) = head
            /\ SubSeq(IosOutputLines, n - Len(tail) + 1, n) = tail

\* C13 (as claimed): a call on a file with neither the key line nor a line
\* with "</dict>" returns false and does not write the file.
C13_NoAnchorFails ==
    (/\ iosResult # "none" /\ entitlementsExists
     /\ ~Includes(iosBefore, KeychainKey)
     /\ ~Includes(iosBefore, "</dict>")) =>
        (iosResult = "false" /\ iosWrites = 0)

\* The block of key line and array the call inserts
ExpectedKeychainBlock ==
    << <<TAB, KeychainKey>>, <<TAB, "<array>">>,
       <<TAB, TAB, StringTag(bundleId)>> >>
    \o [k \in 1..Len(keychains) |-> <<TAB, TAB, StringTag(keychains[k])>>]
    \o << <<TAB, "</array>">> >>

\* C14 (as claimed): after a call on a file without the key that has a
\* line with "</dict>", the output holds the key line once, and it is the
\* input with one block of key line and array inserted right before one
\* of the lines with "</dict>".
C14_OneBlockBeforeClosingDict ==
    (/\ iosResult = "true"
     /\ ~Includes(iosBefore, KeychainKey)
     /\ Includes(iosBefore, "</dict>")) =>
        /\ Cardinality({i \in 1..Len(entitlements) :
                           entitlements[i] = KeychainKey}) = 1
        /\ \E d \in 1..Len(IosInputLines) :
              /\ Includes(IosInputLines[d], "</dict>")
              /\ IosOutputLines =
                    SubSeq(IosInputLines, 1, d - 1)
                    \o ExpectedKeychainBlock
                    \o SubSeq(IosInputLines, d, Len(IosInputLines))

\* The input holds the key once and the line after it is the self-closing
\* array TAB <array/>
InputHasSelfClosingArray ==
    /\ InputHasAtMostOneKey /\ IosInputKeyLine # 0
    /\ IosInputKeyLine < Len(IosInputLines)
    /\ IosInputLines[IosInputKeyLine + 1] = <<TAB, "<array/>">>

\* The input with its self-closing array written as the pair of lines
\* TAB <array> / TAB </array>
InputWithArrayPair ==
    Join(SubSeq(IosInputLines, 1, IosInputKeyLine)
         \o << <<TAB, "<array>">>, <<TAB, "</array>">> >>
         \o SubSeq(IosInputLines, IosInputKeyLine + 2, Len(IosInputLines)))

\* C15 (as claimed): the output for a file whose array is <array/> is the
\* output for the same file with the array written as the empty pair, and
\* the lines that follow the array are the last lines of the output.
C15_SelfClosingArrayAsEmptyPair ==
    (iosResult = "true" /\ InputHasSelfClosingArray) =>
        LET tail == SubSeq(IosInputLines, IosInputKeyLine + 2,
                           Len(IosInputLines))
            n    == Len(IosOutputLines)
        IN  /\ entitlements = NewEntitlements(InputWithArrayPair, bundleId, keychains)
            /\ n >= Len(tail)
            /\ SubSeq(IosOutputLines, n - Len(tail) + 1, n) = tail

\* The lines inside the array of the input (after the line that opens it,
\* before the first line with "</array>") that hold no <string> entry
IosForeignArrayLines ==
    LET close == FirstLineWithFrom(IosInputLines, "</array>", IosInputKeyLine + 1)
    IN  IF IosInputKeyLine = 0 \/ close = 0 THEN {}
        ELSE {k \in (IosInputKeyLine + 2)..(close - 1) :
                 \A i \in 1..Len(IosInputLines[k]) :
                    ~IsStringToken(IosInputLines[k][i])}

\* C16 (as claimed): after a call on a file with the key line, the lines
\* inside the array that are no <string> entries are in the output,
\* unmodified and in their original order.
C16_ForeignArrayLinesKept ==
    (iosResult = "true" /\ InputHasAtMostOneKey) =>
        IsSubsequence(SelectLines(IosInputLines, 1, IosForeignArrayLines),
                      IosOutputLines)

IosOutputKeyLine == FirstLineWith(IosOutputLines, KeychainKey)

\* The <string> entries of the array of the output: those on the lines
\* after the key line, up to and including the first line with "</array>"
\* (up to the end of the file when nothing closes the array)
IosOutputArrayStrings ==
    LET close == FirstLineWithFrom(IosOutputLines, "</array>", IosOutputKeyLine + 1)
        last  == IF close = 0 THEN Len(IosOutputLines) ELSE close
    IN  SelectSeq(Join(SubSeq(IosOutputLines, IosOutputKeyLine + 1, last)),
                  IsStringToken)

\* C17 (as claimed, on files with at most one key line): after a call that
\* returned true the <string> entries of the keychain-access-groups array
\* are the entry of the bundle id, then the entry of each keychain in the
\* supplied order, and no entry of the array's previous content.
C17_ExactArrayEntries ==
    (/\ iosResult = "true" /\ InputHasAtMostOneKey
     /\ IosInputKeyLine # 0) =>
        IosOutputArrayStrings
            = <<StringTag(bundleId)>>
              \o [k \in 1..Len(keychains) |-> StringTag(keychains[k])]

(***************************************************************************)
(* Duplicates in the package list                                          *)
(***************************************************************************)
\* The list with every repeated name removed, first occurrences kept
WithoutDuplicates(list) ==
    SelectLines(list, 1,
                {i \in 1..Len(list) : \A j \in 1..(i - 1) : list[j] # list[i]})

\* C18 (as claimed): after a call that returned true with a package list
\* that names a package more than once, the manifest is the one the call
\* computes for the list with the duplicates removed.
C18_DuplicatesNotMeaningful ==
    (result = "true" /\ WithoutDuplicates(UsedPackages) # UsedPackages) =>
        manifest = ComputeManifest(before, WithoutDuplicates(UsedPackages)).content

(***************************************************************************)
(* Properties of release.sh                                                *)
(***************************************************************************)
\* The script is past load_config
ConfigLoaded == pc \in {"prepare", "build_ios", "build_android"} \/ steps # <<>>
                \/ prepareOutcome # "none"

\* C19 (as claimed): once the arguments are parsed and load_config has
\* run, PLATFORM is the value of --platform whenever that option was
\* given, and IOS_PROJECT_NAME is the value of --ios-project whenever
\* that option was given.
C19_CommandLineOverridesConfig ==
    ConfigLoaded =>
        /\ cliPlatform # "" => PLATFORM = cliPlatform
        /\ cliIosProject # "" => IOS_PROJECT_NAME = cliIosProject

IsBuildStep(step) == step \in {"build_ios", "build_android"}

\* C20: a build step is run only after the prepare script has run and
\* ended with status 0; when the prepare script is missing or ends with
\* another status the script has ended with a non-zero status and no build
\* step was run; build_android is never run before build_ios.
C20_PrepareThenIosThenAndroid ==
    /\ \A i \in 1..Len(steps) :
          IsBuildStep(steps[i]) =>
             /\ prepareOutcome = "ran" /\ prepareStatus = 0
             /\ \E j \in 1..(i - 1) : steps[j] = "prepare"
    /\ (\/ prepareOutcome = "missing"
        \/ prepareOutcome = "ran" /\ prepareStatus # 0) =>
          /\ exited /\ exitStatus # 0
          /\ \A i \in 1..Len(steps) : ~IsBuildStep(steps[i])
    /\ \A i \in 1..Len(steps) : \A j \in (i + 1)..Len(steps) :
          ~(steps[i] = "build_android" /\ steps[j] = "build_ios")

\* C20 witness: a run that prepared, built for iOS, then for Android, and
\* ended with status 0.
C20_Witness ==
    /\ exited /\ exitStatus = 0
    /\ steps = <<"prepare", "build_ios", "build_android">>

(***************************************************************************)
(* Properties of prepare/main.js                                           *)
(***************************************************************************)
RECURSIVE FlagStyleParseFrom(_, _, _)
\* The parse in which --autoVersionCode takes the next word as its value
\* only when that word is 0 or 1, and is a flag otherwise
FlagStyleParseFrom(list, i, acc) ==
    IF i > Len(list) THEN acc
    ELSE IF list[i] = "--file" /\ i + 1 <= Len(list)
         THEN FlagStyleParseFrom(list, i + 2, [acc EXCEPT !.configFile = list[i + 1]])
    ELSE IF list[i] = "--app-icon" /\ i + 1 <= Len(list)
         THEN FlagStyleParseFrom(list, i + 2, [acc EXCEPT !.appIcon = list[i + 1]])
    ELSE IF list[i] = "--logo" /\ i + 1 <= Len(list)
         THEN FlagStyleParseFrom(list, i + 2, [acc EXCEPT !.logoIcon = list[i + 1]])
    ELSE IF /\ list[i] = "--autoVersionCode" /\ i + 1 <= Len(list)
            /\ list[i + 1] \in {"0", "1"}
         THEN FlagStyleParseFrom(list, i + 2,
                                 [acc EXCEPT !.autoVersionCode = (list[i + 1] = "1")])
    ELSE IF list[i] = "--autoVersionCode"
         THEN FlagStyleParseFrom(list, i + 1, [acc EXCEPT !.autoVersionCode = TRUE])
    ELSE IF list[i] = "--help"
         THEN FlagStyleParseFrom(list, i + 1, [acc EXCEPT !.help = TRUE])
    ELSE [acc EXCEPT !.exit = TRUE]

\* C24 (as claimed): once parseArgs has run, its result is the one in
\* which every --autoVersionCode without a 0/1 value set autoVersionCode
\* to true and left the next word to be parsed as an option, and in which
\* the values 1 and 0 give true and false.
C24_FlagStyleAutoVersionCode ==
    mainPc # "parseArgs" =>
        mainArgs = FlagStyleParseFrom(argv, 1, InitialArgs)

\* The messages logged so far hold this one
Logged(message) == \E i \in 1..Len(logs) : logs[i] = message

\* updateIosConfig has run to its end
IosConfigUpdated == Logged("iOS configuration updated successfully.")

\* updateAndroidConfig has run to its end
AndroidConfigUpdated ==
    \E i \in 1..Len(calls) : calls[i] = "setupKeychainsAndroid"

\* The text of the first setting of a key in build.gradle on disk
GradleText(key) ==
    LET k == CHOOSE i \in 1..Len(gradle) :
                /\ gradle[i].key = key
                /\ \A j \in 1..(i - 1) : gradle[j].key # key
    IN  gradle[k].text

\* C21 (as claimed): after updateAndroidConfig has completed, build.gradle
\* on disk has applicationId equal to config.ANDROID_APP_ID and versionName
\* equal to config.VERSION, with and without autoVersionCode.
C21_GradleIdentityPersisted ==
    AndroidConfigUpdated =>
        /\ GradleText("applicationId") = config.ANDROID_APP_ID
        /\ GradleText("versionName") = config.VERSION

\* C22 (as claimed): after updateIosConfig has completed, every
\* DEVELOPMENT_TEAM setting of project.pbxproj on disk has the value
\* config.TEAM_ID, and when the file had no such setting each
\* buildSettings block has got one.
C22_DevelopmentTeamPersisted ==
    IosConfigUpdated =>
        /\ \A i \in 1..Len(pbxproj) :
              pbxproj[i].kind = "DEVELOPMENT_TEAM" =>
                 pbxproj[i].value = config.TEAM_ID
        /\ (\A i \in 1..Len(pbxprojBefore) :
               pbxprojBefore[i].kind # "DEVELOPMENT_TEAM") =>
              \A i \in 1..Len(pbxproj) :
                 pbxproj[i] = BuildSettingsOpen =>
                    /\ i < Len(pbxproj)
                    /\ pbxproj[i + 1] = TeamSetting(config.TEAM_ID)

\* The versionCode settings of a build file, in order
VersionCodeLines(content) ==
    SelectLines(content, 1,
                {i \in 1..Len(content) : content[i].key = "versionCode"})

\* C23 (as claimed): after updateAndroidConfig has completed with
\* autoVersionCode, the versionCode of build.gradle is the one it had
\* before plus one, a missing versionCode counting as 0; without
\* autoVersionCode the versionCode settings are unchanged.
C23_VersionCodeStep ==
    AndroidConfigUpdated =>
        IF config.autoVersionCode
        THEN /\ VersionCodeLines(gradle) # <<>>
             /\ CurrentVersionCode(gradle) = CurrentVersionCode(gradleBefore) + 1
        ELSE VersionCodeLines(gradle) = VersionCodeLines(gradleBefore)

IosCalls ==
    {"updateIosConfig", "setupKeychainsIos", "updateIosBundleUrls",
     "setupGoogleServiceInfo"}

AndroidCalls == {"updateAndroidConfig", "setupKeychainsAndroid"}

AndroidFiles ==
    {"android/build.gradle", "android/strings.xml", "android/colors.xml",
     "android/values-night/colors.xml", "android/AndroidManifest.xml"}

\* C25 (as claimed): asset generation is the first call; updateIosConfig
\* is called only for the platforms ios and all, updateAndroidConfig only
\* for android and all; every call of the iOS update precedes the Android
\* update; with ios no Android file is written and with android no iOS
\* file is written.
C25_PlatformGatingAndOrder ==
    calls # <<>> =>
        /\ calls[1] = "generateAppAssets"
        /\ \A i \in 1..Len(calls) :
              /\ calls[i] \in IosCalls => config.PLATFORM \in {"ios", "all"}
              /\ calls[i] \in AndroidCalls => config.PLATFORM \in {"android", "all"}
              /\ \A j \in 1..Len(calls) :
                    (calls[i] \in IosCalls /\ calls[j] \in AndroidCalls) => i < j
        /\ config.PLATFORM = "ios" =>
              \A k \in 1..Len(written) : written[k] \notin AndroidFiles
        /\ config.PLATFORM = "android" =>
              \A k \in 1..Len(written) : written[k] \in AndroidFiles

\* The files asset generation writes
AssetFiles == {"ios/Images.xcassets/AppIcon.appiconset/Contents.json"}

\* C25 (amended): as C25, but with android the only files written
\* outside the Android project are those of asset generation.
C25_PlatformGatingAndOrderAmended ==
    calls # <<>> =>
        /\ calls[1] = "generateAppAssets"
        /\ \A i \in 1..Len(calls) :
              /\ calls[i] \in IosCalls => config.PLATFORM \in {"ios", "all"}
              /\ calls[i] \in AndroidCalls => config.PLATFORM \in {"android", "all"}
              /\ \A j \in 1..Len(calls) :
                    (calls[i] \in IosCalls /\ calls[j] \in AndroidCalls) => i < j
        /\ config.PLATFORM = "ios" =>
              \A k \in 1..Len(written) : written[k] \notin AndroidFiles
        /\ config.PLATFORM = "android" =>
              \A k \in 1..Len(written) :
                 written[k] \in AndroidFiles \cup AssetFiles

\* C25 witness: a run for android that generated the icon assets, wrote
\* the Android files and ended.
C25_Witness ==
    /\ mainPc = "done" /\ config.PLATFORM = "android"
    /\ \E k \in 1..Len(written) : written[k] \in AssetFiles
    /\ \E k \in 1..Len(written) : written[k] = "android/AndroidManifest.xml"

\* The calls made after the call named first
CalledAfter(first, later) ==
    \E i \in 1..Len(calls) : \E j \in (i + 1)..Len(calls) :
        calls[i] = first /\ calls[j] = later

\* C26: when setupKeychainsIos has returned false the later steps of
\* updateIosConfig were run, its closing message was logged and main went
\* on to the Android part; when setupKeychainsAndroid has returned false
\* both closing messages were logged and main ended with status 0.
C26_FailedKeychainsNotFatal ==
    /\ keychainsIosReturned = "false" =>
          /\ CalledAfter("setupKeychainsIos", "updateIosBundleUrls")
          /\ CalledAfter("setupKeychainsIos", "setupGoogleServiceInfo")
          /\ IosConfigUpdated
          /\ \/ mainPc \in {"android", "done"}
             \/ \E i \in 1..Len(calls) : calls[i] = "updateAndroidConfig"
    /\ result = "false" =>
          /\ Logged("Android configuration updated successfully.")
          /\ Logged("Preparation process completed successfully!")
          /\ mainPc = "done" /\ mainExitStatus = 0

\* C26 witness: a run in which both keychain setups returned false and
\* that ended with status 0.
C26_Witness ==
    /\ keychainsIosReturned = "false" /\ result = "false"
    /\ mainPc = "done" /\ mainExitStatus = 0

(***************************************************************************)
(* Properties of dependencies.js                                           *)
(***************************************************************************)
DependenciesDone == depPc = "done"

\* C27: after the script completes, the workspaces array of package.json on
\* disk includes '../../packages/*', also when no dependency entry had to be
\* changed or re-sorted
C27_WorkspacesOnDisk ==
    DependenciesDone =>
        /\ packageJsonDisk.workspaces.kind = "array"
        /\ Contains(packageJsonDisk.workspaces.items, WorkspaceGlob)

\* What C28 says of one section of package.json on disk, given the section
\* of git_packages.json and the section as it was before the run
SectionResolved(section, gitSection, sectionBefore) ==
    /\ \A name \in Keys(gitSection) :
          IF name \in DOMAIN localPackages
          THEN Get(section, name) = LocalPath(localPackages[name])
          ELSE IF name \in Keys(sectionBefore)
          THEN Get(section, name) = Get(gitSection, name)
          ELSE name \notin Keys(section)
    /\ \A name \in Keys(section) :
          ~(/\ StartsWithLink(Get(section, name))
            /\ name \notin DOMAIN localPackages
            /\ name \in Keys(gitSection))

====
